---- MODULE Spec2Model ----
(***************************************************************************)
(* jira2you: the application controller (src/ui/app.rs), its view state    *)
(* holders (src/ui/components), the event loop (src/main.rs) and the       *)
(* resource client (src/jira/client.rs) as a state machine.                *)
(*                                                                         *)
(* Strings are sequences of UTF-8 bytes (numbers), an Option is a sequence *)
(* of length at most one.                                                  *)
(***************************************************************************)
EXTENDS Integers, Sequences, FiniteSets, TLC

VARIABLES
    app,    \* the App struct (src/ui/app.rs:30-53)
    srv,    \* the remote service: issue statuses, comments, sprint names
    loop,   \* where main / run_app stands
    pc,     \* the await the current handler is suspended at
    call,   \* the remote request in flight, if any
    pre,    \* the App as it was when the event being handled was dequeued
    last,   \* the event being handled, or the one just handled
    pg,     \* one run of JiraClient::get_board_sprints, request by request
    inp,    \* one InputView taken alone
    log,    \* the requests of the step being handled: issued, answered, failed
    ls,     \* one call of a list operation of JiraClient taken alone
    http,   \* one call of send_request / send_agile_request taken alone
    queue,  \* the channel of EventHandler, when the events are followed
    prod,   \* the producer task of EventHandler taken alone, with its clock
    term,   \* main taken alone: the terminal, and what main has printed
    nav     \* one cursor-bearing view taken alone

vars == <<app, srv, loop, pc, call, pre, last, pg, inp, log, ls, http, queue, prod, term,
          nav>>

(***************************************************************************)
(* Bounds of the model.                                                    *)
(***************************************************************************)
\* usize::MAX, cut to the largest number TLC's integers hold
UsizeMax == 2147483647
\* how far past the end of its list the operator moves a selection
MaxStale == 1
\* the longest text (in bytes) the operator types into the input buffer
MaxInput == 1
\* the number of writes (transition, comment, rename) the operator makes
MaxWrites == 1
\* the page size of the service in the controller's specification
PageSize == 3
\* pagination alone: the largest collection, the largest page size, and
\* the number of requests after which a run is no longer followed
MaxN == 5
MaxP == 3
MaxRequests == 6
\* the input buffer alone: the longest text (in bytes)
MaxText == 4

(***************************************************************************)
(* Option, strings, sorting.                                               *)
(***************************************************************************)
None == <<>>
Some(x) == <<x>>
IsSome(o) == Len(o) = 1
Unwrap(o) == o[1]

Min(a, b) == IF a < b THEN a ELSE b

\* a[from..to], empty when from > to
Slice(s, from, to) == [i \in 1..(to - from + 1) |-> s[from + i - 1]]

\* str::cmp on the bytes: TRUE when a < b
RECURSIVE StrLess(_, _)
StrLess(a, b) ==
    IF b = <<>> THEN FALSE
    ELSE IF a = <<>> THEN TRUE
    ELSE IF a[1] # b[1] THEN a[1] < b[1]
    ELSE StrLess(Tail(a), Tail(b))

\* str::contains
StrContains(s, pat) ==
    \E i \in 0..(Len(s) - Len(pat)) : Slice(s, i + 1, i + Len(pat)) = pat

\* slice::sort_by(|a, b| b.k.cmp(&a.k)): stable, descending by the key
\* (key[i] the key of s[i], compared as bytes; a number as one byte).
\* The element at index i lands after every element with a greater key and
\* after the earlier elements with an equal key.
SortDesc(s, key) ==
    LET pos(i) == 1 + Cardinality({j \in DOMAIN s : StrLess(key[i], key[j])})
                    + Cardinality({j \in DOMAIN s : j < i /\ key[i] = key[j]})
    IN  [p \in 1..Len(s) |-> s[CHOOSE i \in DOMAIN s : pos(i) = p]]

\* Iterator::filter(..).collect(): the elements that satisfy Test, in order
FilterSeq(s, idx) ==
    LET nth(k) == CHOOSE i \in idx : Cardinality({j \in idx : j <= i}) = k
    IN  [k \in 1..Cardinality(idx) |-> s[nth(k)]]

\* Iterator::find: the first element that satisfies Test
FindSeq(s, idx) ==
    IF idx = {} THEN None
    ELSE Some(s[CHOOSE i \in idx : \A j \in idx : i <= j])

Range(s) == {s[i] : i \in DOMAIN s}

(***************************************************************************)
(* The remote service the client talks to: its boards, projects, sprints   *)
(* and issues.  Statuses, comments and sprint names change with the writes *)
(* of the client (srv); the rest is fixed.                                 *)
(***************************************************************************)
ServerProjects == <<
    [id |-> <<49>>, key |-> <<65>>, name |-> <<97>>],
    [id |-> <<50>>, key |-> <<66>>, name |-> <<98>>],
    [id |-> <<51>>, key |-> <<67>>, name |-> <<99>>] >>

\* location: Option<BoardLocation>, of which only project_key: Option<String>
ServerBoards == <<
    [id |-> 1, name |-> <<65, 49>>, location |-> None],
    [id |-> 2, name |-> <<122>>,    location |-> Some([project_key |-> Some(<<66>>)])],
    [id |-> 3, name |-> <<66, 113>>, location |-> Some([project_key |-> None])] >>

BoardIds == {b.id : b \in Range(ServerBoards)}

\* the sprints of each board, in the order the service lists them
ServerSprintIds == [b \in BoardIds |->
    CASE b = 1 -> <<12, 11>>
      [] b = 2 -> <<21>>
      [] OTHER -> <<>>]

SprintIds == UNION {Range(ServerSprintIds[b]) : b \in BoardIds}

SprintGoal(id) == IF id = 11 THEN Some(<<103>>) ELSE None

IssueKey(n) == <<75, 48 + n>>

ServerSprintIssues == [s \in SprintIds |->
    CASE s = 11 -> <<IssueKey(1), IssueKey(2)>>
      [] s = 12 -> <<IssueKey(3)>>
      [] OTHER  -> <<IssueKey(4)>>]

ServerBacklog == [b \in BoardIds |->
    IF b = 1 THEN <<IssueKey(5)>> ELSE <<>>]

IssueKeys == {IssueKey(n) : n \in 1..5}

IssueSummary(k) == IF k = IssueKey(2) THEN <<195, 169>> ELSE <<115>>

\* the workflow: the transitions the service offers for an issue in a status
Workflow(status) ==
    CASE status = "todo"  -> << [id |-> "11", to |-> "doing"], [id |-> "12", to |-> "done"] >>
      [] status = "doing" -> << [id |-> "21", to |-> "done"] >>
      [] OTHER            -> <<>>

SrvInit ==
    [ status      |-> [k \in IssueKeys |->
                          CASE k = IssueKey(2) -> "done"
                            [] k = IssueKey(3) -> "doing"
                            [] OTHER -> "todo"],
      comments    |-> [k \in IssueKeys |-> <<>>],
      sprint_name |-> [s \in SprintIds |-> <<83, 48 + (s % 10)>>],
      writes      |-> 0 ]

(***************************************************************************)
(* The typed records of src/jira/models.rs, as the service renders them.   *)
(***************************************************************************)
IssueOf(s, k) ==
    [key |-> k, summary |-> IssueSummary(k), status |-> s.status[k],
     comments |-> s.comments[k]]

SprintOf(s, id) ==
    [id |-> id, name |-> s.sprint_name[id], goal |-> SprintGoal(id)]

\* one page of a paginated list endpoint: {values, startAt, maxResults, isLast}
PageOf(items, startAt, size) ==
    [ values      |-> Slice(items, startAt + 1, Min(startAt + size, Len(items))),
      start_at    |-> startAt,
      max_results |-> size,
      is_last     |-> Some(startAt + size >= Len(items)) ]

(***************************************************************************)
(* JiraClient (src/jira/client.rs): what each operation returns when its   *)
(* requests succeed, and what each write does to the service.              *)
(***************************************************************************)
\* a turn that takes the page size alone for the next offset
PageStep_OffsetIsPageSize(all_sprints, response) ==
    [ all_sprints |-> all_sprints \o response.values,
      break       |-> IF response.is_last = None THEN TRUE ELSE Unwrap(response.is_last),
      start_at    |-> response.max_results ]

\* a turn that goes on when isLast is absent
PageStep_AbsentGoesOn(all_sprints, response) ==
    [ all_sprints |-> all_sprints \o response.values,
      break       |-> IF response.is_last = None THEN FALSE ELSE Unwrap(response.is_last),
      start_at    |-> response.start_at + response.max_results ]

\* one turn of the loop of get_board_sprints on a response: the items so
\* far, whether the loop breaks, and the next offset (client.rs:134-139)
PageStep(all_sprints, response) ==
    [ all_sprints |-> all_sprints \o response.values,
      break       |-> IF response.is_last = None THEN TRUE ELSE Unwrap(response.is_last),
      start_at    |-> response.start_at + response.max_results ]

\* get_board_sprints against a service that answers the request for offset
\* n with serve[n]
RECURSIVE GetBoardSprintsLoop(_, _, _)
GetBoardSprintsLoop(serve, start_at, all_sprints) ==
    LET r == PageStep(all_sprints, serve[start_at])
    IN  IF r.break THEN r.all_sprints
        ELSE GetBoardSprintsLoop(serve, r.start_at, r.all_sprints)

get_board_sprints(s, board_id) ==
    LET items == [i \in DOMAIN ServerSprintIds[board_id] |->
                     SprintOf(s, ServerSprintIds[board_id][i])]
        serve == [n \in 0..(Len(items) + PageSize) |-> PageOf(items, n, PageSize)]
    IN  GetBoardSprintsLoop(serve, 0, <<>>)

\* the single-request list operations return the items of the first page
get_sprint_issues(s, board_id, sprint_id) ==
    LET items == [i \in DOMAIN ServerSprintIssues[sprint_id] |->
                     IssueOf(s, ServerSprintIssues[sprint_id][i])]
    IN  PageOf(items, 0, PageSize).values

get_backlog(s, board_id) ==
    LET items == [i \in DOMAIN ServerBacklog[board_id] |->
                     IssueOf(s, ServerBacklog[board_id][i])]
    IN  PageOf(items, 0, PageSize).values

get_projects == PageOf(ServerProjects, 0, PageSize).values

get_boards == PageOf(ServerBoards, 0, PageSize).values

get_issue(s, issue_id) == IssueOf(s, issue_id)

get_transitions(s, issue_id) == Workflow(s.status[issue_id])

\* the writes: the service after the request
transition_issue(s, issue_id, transition_id) ==
    LET t == FindSeq(Workflow(s.status[issue_id]),
                     {i \in DOMAIN Workflow(s.status[issue_id]) :
                         Workflow(s.status[issue_id])[i].id = transition_id})
    IN  [s EXCEPT !.status[issue_id] = Unwrap(t).to, !.writes = @ + 1]

add_comment(s, issue_id, comment) ==
    [s EXCEPT !.comments[issue_id] = Append(@, comment), !.writes = @ + 1]

update_sprint(s, sprint_id, name) ==
    [s EXCEPT !.sprint_name[sprint_id] = name, !.writes = @ + 1]

\* the requests the service can answer with a success status
Answerable(s, c) ==
    CASE c.op = "get_sprint_issues" ->
            /\ c.board \in BoardIds
            /\ c.sprint \in Range(ServerSprintIds[c.board])
      [] c.op \in {"get_board_sprints", "get_backlog"} -> c.board \in BoardIds
      [] c.op = "transition_issue" ->
            IsSome(FindSeq(Workflow(s.status[c.issue]),
                           {i \in DOMAIN Workflow(s.status[c.issue]) :
                               Workflow(s.status[c.issue])[i].id = c.transition}))
      [] c.op = "update_sprint" -> c.sprint \in SprintIds
      [] OTHER -> TRUE

\* a request: every field is present, the unused ones are empty
Request(op) ==
    [op |-> op, board |-> 0, sprint |-> 0, issue |-> <<>>, transition |-> "", body |-> <<>>]

(***************************************************************************)
(* The view state holders (src/ui/components).  An operation that can      *)
(* panic yields the set of its outcomes [panic, v].                        *)
(***************************************************************************)
Ok(v) == [panic |-> FALSE, v |-> v]
Panicked(v) == [panic |-> TRUE, v |-> v]

\* `len - 1` on usize: with len = 0 it panics where overflow checks are
\* compiled in and wraps to usize::MAX where they are not
LenMinusOne(len) ==
    IF len > 0 THEN {Ok(len - 1)} ELSE {Panicked(0), Ok(UsizeMax)}

\* a next() that stops at the last row
ListNext_StopsAtEnd(len, selected) ==
    IF selected = None THEN {Ok(Some(0))}
    ELSE {IF m.panic THEN Panicked(selected)
          ELSE Ok(Some(IF Unwrap(selected) >= m.v THEN m.v ELSE Unwrap(selected) + 1))
          : m \in LenMinusOne(len)}

\* the body shared by every next(): the new selection
ListNext(len, selected) ==
    IF selected = None THEN {Ok(Some(0))}
    ELSE {IF m.panic THEN Panicked(selected)
          ELSE Ok(Some(IF Unwrap(selected) >= m.v THEN 0 ELSE Unwrap(selected) + 1))
          : m \in LenMinusOne(len)}

\* the body shared by every previous()
ListPrevious(len, selected) ==
    IF selected = None THEN {Ok(Some(0))}
    ELSE IF Unwrap(selected) = 0
         THEN {IF m.panic THEN Panicked(selected) ELSE Ok(Some(m.v))
               : m \in LenMinusOne(len)}
         ELSE {Ok(Some(Unwrap(selected) - 1))}

\* the body shared by every set_*(): a non-empty list selects its first row
SelectFirst(list, selected) == IF list # <<>> THEN Some(0) ELSE selected

\* Vec::get under the selection
Selected(list, selected) ==
    IF IsSome(selected) /\ Unwrap(selected) < Len(list)
    THEN Some(list[Unwrap(selected) + 1]) ELSE None

WithState(view, outcomes) ==
    {[panic |-> o.panic, v |-> [view EXCEPT !.state = o.v]] : o \in outcomes}

\* the string literals of the program, as bytes
StrSprint == <<83, 112, 114, 105, 110, 116>>
StrNoSprintsAvailable == <<78, 111, 32, 83, 112, 114, 105, 110, 116, 115, 32, 65, 118, 97, 105, 108, 97, 98, 108, 101>>
StrInput == <<73, 110, 112, 117, 116>>
StrAddComment == <<65, 100, 100, 32, 67, 111, 109, 109, 101, 110, 116>>
StrEditIssueSummary == <<69, 100, 105, 116, 32, 73, 115, 115, 117, 101, 32, 83, 117, 109, 109, 97, 114, 121>>
StrEditSprintName == <<69, 100, 105, 116, 32, 83, 112, 114, 105, 110, 116, 32, 78, 97, 109, 101, 58, 32>>

\* format!("{}", n) of an unsigned number
RECURSIVE Decimal(_)
Decimal(n) == IF n < 10 THEN <<48 + n>> ELSE Decimal(n \div 10) \o <<48 + (n % 10)>>

\* ---- SprintView
SprintView_new ==
    [issues |-> <<>>, state |-> None, sprint_name |-> StrSprint, sprint_goal |-> None]

SprintView_set_issues(v, issues, sprint_name, sprint_goal) ==
    LET sorted == SortDesc(issues, [i \in DOMAIN issues |-> issues[i].key])
    IN  [issues |-> sorted, state |-> SelectFirst(sorted, v.state),
         sprint_name |-> sprint_name, sprint_goal |-> sprint_goal]

SprintView_next(v) == WithState(v, ListNext(Len(v.issues), v.state))
SprintView_previous(v) == WithState(v, ListPrevious(Len(v.issues), v.state))
SprintView_selected_issue(v) == Selected(v.issues, v.state)

\* ---- BacklogView
BacklogView_new == [issues |-> <<>>, state |-> None]

BacklogView_set_issues(v, issues) ==
    LET sorted == SortDesc(issues, [i \in DOMAIN issues |-> issues[i].key])
    IN  [issues |-> sorted, state |-> SelectFirst(sorted, v.state)]

BacklogView_next(v) == WithState(v, ListNext(Len(v.issues), v.state))
BacklogView_previous(v) == WithState(v, ListPrevious(Len(v.issues), v.state))
BacklogView_selected_issue(v) == Selected(v.issues, v.state)

\* ---- SprintSelector
SprintSelector_new == [sprints |-> <<>>, state |-> None, is_active |-> FALSE]

SprintSelector_set_sprints(v, sprints) ==
    LET sorted == SortDesc(sprints, [i \in DOMAIN sprints |-> <<sprints[i].id>>])
    IN  [v EXCEPT !.sprints = sorted, !.state = SelectFirst(sorted, v.state)]

SprintSelector_next(v) ==
    IF ~v.is_active THEN {Ok(v)} ELSE WithState(v, ListNext(Len(v.sprints), v.state))
SprintSelector_previous(v) ==
    IF ~v.is_active THEN {Ok(v)} ELSE WithState(v, ListPrevious(Len(v.sprints), v.state))
SprintSelector_selected_sprint(v) == Selected(v.sprints, v.state)

\* ---- BoardSelector
BoardSelector_new == [boards |-> <<>>, state |-> None, is_active |-> FALSE]

BoardSelector_set_boards(v, boards) ==
    LET sorted == SortDesc(boards, [i \in DOMAIN boards |-> boards[i].name])
    IN  [v EXCEPT !.boards = sorted, !.state = SelectFirst(sorted, v.state)]

BoardSelector_next(v) ==
    IF ~v.is_active THEN {Ok(v)} ELSE WithState(v, ListNext(Len(v.boards), v.state))
BoardSelector_previous(v) ==
    IF ~v.is_active THEN {Ok(v)} ELSE WithState(v, ListPrevious(Len(v.boards), v.state))
BoardSelector_selected_board(v) == Selected(v.boards, v.state)

\* ---- ProjectSelector
ProjectSelector_new == [projects |-> <<>>, state |-> None, is_active |-> FALSE]

ProjectSelector_set_projects(v, projects) ==
    LET sorted == SortDesc(projects, [i \in DOMAIN projects |-> projects[i].name])
    IN  [v EXCEPT !.projects = sorted, !.state = SelectFirst(sorted, v.state)]

ProjectSelector_next(v) ==
    IF ~v.is_active THEN {Ok(v)} ELSE WithState(v, ListNext(Len(v.projects), v.state))
ProjectSelector_previous(v) ==
    IF ~v.is_active THEN {Ok(v)} ELSE WithState(v, ListPrevious(Len(v.projects), v.state))
ProjectSelector_selected_project(v) == Selected(v.projects, v.state)

\* ---- IssueDetailView
IssueDetailView_new ==
    [issue |-> None, transitions |-> <<>>, transition_state |-> None,
     show_transitions |-> FALSE]

\* set_issue that stores nothing
IssueDetailView_set_issue_StoresNothing(v, issue) == [v EXCEPT !.issue = None]

\* set_issue that keeps an issue already shown
IssueDetailView_set_issue_KeepsShown(v, issue) ==
    IF IsSome(v.issue) THEN v ELSE [v EXCEPT !.issue = Some(issue)]

IssueDetailView_set_issue(v, issue) == [v EXCEPT !.issue = Some(issue)]

\* set_transitions that keeps a list already loaded
IssueDetailView_set_transitions_KeepsLoaded(v, transitions) ==
    IF v.transitions # <<>> THEN v
    ELSE [v EXCEPT !.transitions = transitions,
                   !.transition_state = SelectFirst(transitions, v.transition_state)]

IssueDetailView_set_transitions(v, transitions) ==
    [v EXCEPT !.transitions = transitions,
              !.transition_state = SelectFirst(transitions, v.transition_state)]

WithTransitionState(view, outcomes) ==
    {[panic |-> o.panic, v |-> [view EXCEPT !.transition_state = o.v]] : o \in outcomes}

IssueDetailView_next_transition(v) ==
    WithTransitionState(v, ListNext(Len(v.transitions), v.transition_state))
IssueDetailView_previous_transition(v) ==
    WithTransitionState(v, ListPrevious(Len(v.transitions), v.transition_state))
IssueDetailView_selected_transition(v) == Selected(v.transitions, v.transition_state)

\* ---- InputView: input is a String (UTF-8 bytes), cursor_position a byte offset
InputView_new(title) == [input |-> <<>>, title |-> title, cursor_position |-> 0]

\* str::is_char_boundary
IsCharBoundary(s, idx) ==
    \/ idx = 0
    \/ idx = Len(s)
    \/ idx < Len(s) /\ (s[idx + 1] < 128 \/ s[idx + 1] >= 192)

\* the length in bytes of the character that starts with byte b
Utf8Width(b) ==
    IF b < 128 THEN 1 ELSE IF b < 224 THEN 2 ELSE IF b < 240 THEN 3 ELSE 4

\* String::insert(idx, c) panics unless idx is a char boundary
InputView_push_char(v, c) ==
    IF ~IsCharBoundary(v.input, v.cursor_position) THEN Panicked(v)
    ELSE Ok([v EXCEPT
             !.input = Slice(@, 1, v.cursor_position) \o c
                         \o Slice(@, v.cursor_position + 1, Len(@)),
             !.cursor_position = @ + 1])

\* String::remove(idx) panics unless idx is a char boundary
InputView_pop_char(v) ==
    IF v.cursor_position > 0
    THEN LET idx == v.cursor_position - 1
         IN  IF ~IsCharBoundary(v.input, idx)
             THEN Panicked([v EXCEPT !.cursor_position = idx])
             ELSE Ok([v EXCEPT
                      !.input = Slice(@, 1, idx)
                                  \o Slice(@, idx + Utf8Width(v.input[idx + 1]) + 1, Len(@)),
                      !.cursor_position = idx])
    ELSE Ok(v)

InputView_move_cursor_left(v) ==
    IF v.cursor_position > 0 THEN [v EXCEPT !.cursor_position = @ - 1] ELSE v

\* a move to the right that does not stop at the end
InputView_move_cursor_right_PastEnd(v) ==
    IF v.cursor_position <= Len(v.input) THEN [v EXCEPT !.cursor_position = @ + 1] ELSE v

InputView_move_cursor_right(v) ==
    IF v.cursor_position < Len(v.input) THEN [v EXCEPT !.cursor_position = @ + 1] ELSE v

\* clear that only moves the cursor home
InputView_clear_KeepsText(v) == [v EXCEPT !.cursor_position = 0]

InputView_clear(v) == [v EXCEPT !.input = <<>>, !.cursor_position = 0]

\* the seeding of the buffer when an edit mode is entered (app.rs:200-204, 312-314)
InputView_seed(title, text) ==
    [input |-> text, title |-> title, cursor_position |-> Len(text)]

(***************************************************************************)
(* App (src/ui/app.rs).  A handler runs from the event to its first        *)
(* await, and from each response to the next await or to its end; each     *)
(* such segment yields the set of its outcomes:                            *)
(*   st = "done"   the handler returned Ok(())                             *)
(*   st = "await"  it is suspended at pc on the request call               *)
(*   st = "panic"  it panicked                                             *)
(***************************************************************************)
Done(a) == [app |-> a, st |-> "done", pc |-> "-", call |-> None]
Await(a, label, request) == [app |-> a, st |-> "await", pc |-> label, call |-> Some(request)]
Panic(a) == [app |-> a, st |-> "panic", pc |-> "-", call |-> None]

\* the outcomes of a view operation, stored back into field f of the App
Store(a, f, outcomes) ==
    {IF o.panic THEN Panic(a) ELSE Done([a EXCEPT ![f] = o.v]) : o \in outcomes}

Key(code) == [code |-> code, ch |-> <<>>]
KeyChar(c) == [code |-> "Char", ch |-> c]
IsChar(key, byte) == key.code = "Char" /\ key.ch = <<byte>>

App_new(default_board_id) ==
    [ mode |-> "Sprint",
      show_help |-> FALSE,
      default_board_id |-> default_board_id,
      sprint_view |-> SprintView_new,
      sprint_selector |-> SprintSelector_new,
      board_selector |-> BoardSelector_new,
      project_selector |-> ProjectSelector_new,
      backlog_view |-> BacklogView_new,
      issue_detail_view |-> IssueDetailView_new,
      input_view |-> InputView_new(StrInput),
      should_quit |-> FALSE,
      current_sprint_id |-> None,
      available_boards |-> <<>>,
      available_sprints |-> <<>>,
      available_projects |-> <<>> ]

\* ---- the helpers that make a request

\* what the caller of refresh_sprint does once it has returned Ok
AfterRefreshSprint(a, caller) ==
    CASE caller = "BoardSelector" ->
            Done([a EXCEPT !.board_selector.is_active = FALSE, !.mode = "Sprint"])
      [] caller = "ProjectSelector" ->
            Done([a EXCEPT !.project_selector.is_active = FALSE, !.mode = "Sprint"])
      [] OTHER -> Done(a)

\* refresh_sprint that leaves the sprint view as it is when there is no
\* target sprint
refresh_sprint_target_LeavesStale(a, board_id, caller) ==
    LET target_sprint ==
            IF IsSome(a.current_sprint_id)
            THEN FindSeq(a.available_sprints,
                         {i \in DOMAIN a.available_sprints :
                             a.available_sprints[i].id = Unwrap(a.current_sprint_id)})
            ELSE IF a.available_sprints = <<>> THEN None
                 ELSE Some(a.available_sprints[Len(a.available_sprints)])
    IN  IF IsSome(target_sprint)
        THEN Await([a EXCEPT !.current_sprint_id = Some(Unwrap(target_sprint).id)],
                   "refresh_sprint_issues",
                   [Request("get_sprint_issues") EXCEPT
                        !.board = board_id, !.sprint = Unwrap(target_sprint).id])
        ELSE AfterRefreshSprint(a, caller)

\* refresh_sprint from the choice of the target sprint on (app.rs:450-465)
refresh_sprint_target(a, board_id, caller) ==
    LET target_sprint ==
            IF IsSome(a.current_sprint_id)
            THEN FindSeq(a.available_sprints,
                         {i \in DOMAIN a.available_sprints :
                             a.available_sprints[i].id = Unwrap(a.current_sprint_id)})
            ELSE IF a.available_sprints = <<>> THEN None
                 ELSE Some(a.available_sprints[Len(a.available_sprints)])
    IN  IF IsSome(target_sprint)
        THEN Await([a EXCEPT !.current_sprint_id = Some(Unwrap(target_sprint).id)],
                   "refresh_sprint_issues",
                   [Request("get_sprint_issues") EXCEPT
                        !.board = board_id, !.sprint = Unwrap(target_sprint).id])
        ELSE AfterRefreshSprint(
                 [a EXCEPT !.sprint_view =
                     SprintView_set_issues(@, <<>>, StrNoSprintsAvailable, None)],
                 caller)

refresh_sprint(a, caller) ==
    IF IsSome(a.default_board_id)
    THEN IF a.available_sprints = <<>>
         THEN Await(a, "refresh_sprint_list",
                    [Request("get_board_sprints") EXCEPT !.board = Unwrap(a.default_board_id)])
         ELSE refresh_sprint_target(a, Unwrap(a.default_board_id), caller)
    ELSE AfterRefreshSprint(a, caller)

\* what handle_edit_sprint_name_input does once refresh_sprints has returned Ok
AfterRefreshSprints(a) ==
    Done([a EXCEPT !.input_view = InputView_clear(@), !.mode = "SprintSelector"])

\* refresh_sprints that fetches nothing
refresh_sprints_NoFetch(a) == AfterRefreshSprints(a)

refresh_sprints(a) ==
    IF IsSome(a.default_board_id)
    THEN Await(a, "refresh_sprints",
               [Request("get_board_sprints") EXCEPT !.board = Unwrap(a.default_board_id)])
    ELSE AfterRefreshSprints(a)

load_backlog(a) ==
    IF IsSome(a.default_board_id)
    THEN Await(a, "load_backlog",
               [Request("get_backlog") EXCEPT !.board = Unwrap(a.default_board_id)])
    ELSE Done(a)

load_transitions(a, issue_key) ==
    Await(a, "load_transitions", [Request("get_transitions") EXCEPT !.issue = issue_key])

\* load_sprint_issues that asks for the first sprint of the cached list
load_sprint_issues_FirstCached(a, sprint_id) ==
    IF IsSome(a.default_board_id)
    THEN Await(a, "load_sprint_issues",
               [Request("get_sprint_issues") EXCEPT
                    !.board = Unwrap(a.default_board_id),
                    !.sprint = IF a.available_sprints = <<>> THEN sprint_id
                               ELSE a.available_sprints[1].id])
    ELSE Done([a EXCEPT !.sprint_selector.is_active = FALSE, !.mode = "Sprint"])

load_sprint_issues(a, sprint_id) ==
    IF IsSome(a.default_board_id)
    THEN Await(a, "load_sprint_issues",
               [Request("get_sprint_issues") EXCEPT
                    !.board = Unwrap(a.default_board_id), !.sprint = sprint_id])
    ELSE Done([a EXCEPT !.sprint_selector.is_active = FALSE, !.mode = "Sprint"])

\* ---- the input handlers: the segment from the key to the first await

\* handle_help_input with an Esc that also goes back to the sprint view
handle_help_input_EscToSprint(a, key) ==
    IF IsChar(key, 113) THEN {Done([a EXCEPT !.should_quit = TRUE])}
    ELSE IF IsChar(key, 104) THEN {Done([a EXCEPT !.show_help = FALSE])}
    ELSE IF key.code = "Esc" THEN {Done([a EXCEPT !.show_help = FALSE, !.mode = "Sprint"])}
    ELSE {Done(a)}

handle_help_input(a, key) ==
    IF IsChar(key, 113) THEN {Done([a EXCEPT !.should_quit = TRUE])}
    ELSE IF IsChar(key, 104) \/ key.code = "Esc" THEN {Done([a EXCEPT !.show_help = FALSE])}
    ELSE {Done(a)}

handle_sprint_input(a, key) ==
    IF IsChar(key, 113) THEN {Done([a EXCEPT !.should_quit = TRUE])}
    ELSE IF IsChar(key, 104) THEN {Done([a EXCEPT !.show_help = ~@])}
    ELSE IF IsChar(key, 115) THEN {Done([a EXCEPT !.mode = "Sprint"])}
    ELSE IF IsChar(key, 98) THEN {load_backlog([a EXCEPT !.mode = "Backlog"])}
    ELSE IF IsChar(key, 114) THEN {refresh_sprint(a, "Sprint")}
    ELSE IF key.code = "Tab" THEN
        {Done([a EXCEPT
               !.sprint_selector =
                   [SprintSelector_set_sprints(@, a.available_sprints) EXCEPT !.is_active = TRUE],
               !.mode = "SprintSelector"])}
    ELSE IF IsChar(key, 66) THEN
        {Done([a EXCEPT
               !.board_selector =
                   [BoardSelector_set_boards(@, a.available_boards) EXCEPT !.is_active = TRUE],
               !.mode = "BoardSelector"])}
    ELSE IF IsChar(key, 80) THEN
        {Done([a EXCEPT
               !.project_selector =
                   [ProjectSelector_set_projects(@, a.available_projects) EXCEPT !.is_active = TRUE],
               !.mode = "ProjectSelector"])}
    ELSE IF key.code = "Down" \/ IsChar(key, 106) THEN
        Store(a, "sprint_view", SprintView_next(a.sprint_view))
    ELSE IF key.code = "Up" \/ IsChar(key, 107) THEN
        Store(a, "sprint_view", SprintView_previous(a.sprint_view))
    ELSE IF key.code = "Enter" THEN
        LET issue == SprintView_selected_issue(a.sprint_view)
        IN  IF IsSome(issue)
            THEN {load_transitions(
                     [a EXCEPT !.issue_detail_view = IssueDetailView_set_issue(@, Unwrap(issue))],
                     Unwrap(issue).key)}
            ELSE {Done(a)}
    ELSE {Done(a)}

handle_backlog_input(a, key) ==
    IF IsChar(key, 113) THEN {Done([a EXCEPT !.should_quit = TRUE])}
    ELSE IF IsChar(key, 104) THEN {Done([a EXCEPT !.show_help = ~@])}
    ELSE IF IsChar(key, 115) THEN {refresh_sprint([a EXCEPT !.mode = "Sprint"], "Backlog")}
    ELSE IF IsChar(key, 98) THEN {Done([a EXCEPT !.mode = "Backlog"])}
    ELSE IF IsChar(key, 114) THEN {load_backlog(a)}
    ELSE IF key.code = "Down" \/ IsChar(key, 106) THEN
        Store(a, "backlog_view", BacklogView_next(a.backlog_view))
    ELSE IF key.code = "Up" \/ IsChar(key, 107) THEN
        Store(a, "backlog_view", BacklogView_previous(a.backlog_view))
    ELSE IF key.code = "Enter" THEN
        LET issue == BacklogView_selected_issue(a.backlog_view)
        IN  IF IsSome(issue)
            THEN {load_transitions(
                     [a EXCEPT !.issue_detail_view = IssueDetailView_set_issue(@, Unwrap(issue))],
                     Unwrap(issue).key)}
            ELSE {Done(a)}
    ELSE {Done(a)}

\* handle_issue_detail_input whose Esc leaves the detail with the
\* transitions still visible
handle_issue_detail_input_EscAlwaysLeaves(a, key) ==
    LET v == a.issue_detail_view IN
    IF IsChar(key, 113) THEN {Done([a EXCEPT !.should_quit = TRUE])}
    ELSE IF IsChar(key, 104) THEN {Done([a EXCEPT !.show_help = ~@])}
    ELSE IF key.code = "Esc" THEN
        {Done([a EXCEPT !.mode = "Sprint"])}
    ELSE IF IsChar(key, 99) THEN
        {Done([a EXCEPT !.input_view = InputView_new(StrAddComment), !.mode = "AddComment"])}
    ELSE IF IsChar(key, 101) THEN
        {Done([a EXCEPT
               !.input_view = IF IsSome(v.issue)
                              THEN InputView_seed(StrEditIssueSummary, Unwrap(v.issue).summary)
                              ELSE InputView_new(StrEditIssueSummary),
               !.mode = "EditIssue"])}
    ELSE IF IsChar(key, 116) THEN
        {Done([a EXCEPT !.issue_detail_view.show_transitions = TRUE])}
    ELSE IF (key.code = "Down" \/ IsChar(key, 106)) /\ v.show_transitions THEN
        Store(a, "issue_detail_view", IssueDetailView_next_transition(v))
    ELSE IF (key.code = "Up" \/ IsChar(key, 107)) /\ v.show_transitions THEN
        Store(a, "issue_detail_view", IssueDetailView_previous_transition(v))
    ELSE IF key.code = "Enter" /\ v.show_transitions THEN
        LET transition == IssueDetailView_selected_transition(v)
        IN  IF IsSome(transition) /\ IsSome(v.issue)
            THEN {Await(a, "transition_issue",
                        [Request("transition_issue") EXCEPT
                             !.issue = Unwrap(v.issue).key,
                             !.transition = Unwrap(transition).id])}
            ELSE {Done([a EXCEPT !.issue_detail_view.show_transitions = FALSE])}
    ELSE {Done(a)}

handle_issue_detail_input(a, key) ==
    LET v == a.issue_detail_view IN
    IF IsChar(key, 113) THEN {Done([a EXCEPT !.should_quit = TRUE])}
    ELSE IF IsChar(key, 104) THEN {Done([a EXCEPT !.show_help = ~@])}
    ELSE IF key.code = "Esc" THEN
        IF v.show_transitions
        THEN {Done([a EXCEPT !.issue_detail_view.show_transitions = FALSE])}
        ELSE {Done([a EXCEPT !.mode = "Sprint"])}
    ELSE IF IsChar(key, 99) THEN
        {Done([a EXCEPT !.input_view = InputView_new(StrAddComment), !.mode = "AddComment"])}
    ELSE IF IsChar(key, 101) THEN
        {Done([a EXCEPT
               !.input_view = IF IsSome(v.issue)
                              THEN InputView_seed(StrEditIssueSummary, Unwrap(v.issue).summary)
                              ELSE InputView_new(StrEditIssueSummary),
               !.mode = "EditIssue"])}
    ELSE IF IsChar(key, 116) THEN
        {Done([a EXCEPT !.issue_detail_view.show_transitions = TRUE])}
    ELSE IF (key.code = "Down" \/ IsChar(key, 106)) /\ v.show_transitions THEN
        Store(a, "issue_detail_view", IssueDetailView_next_transition(v))
    ELSE IF (key.code = "Up" \/ IsChar(key, 107)) /\ v.show_transitions THEN
        Store(a, "issue_detail_view", IssueDetailView_previous_transition(v))
    ELSE IF key.code = "Enter" /\ v.show_transitions THEN
        LET transition == IssueDetailView_selected_transition(v)
        IN  IF IsSome(transition) /\ IsSome(v.issue)
            THEN {Await(a, "transition_issue",
                        [Request("transition_issue") EXCEPT
                             !.issue = Unwrap(v.issue).key,
                             !.transition = Unwrap(transition).id])}
            ELSE {Done([a EXCEPT !.issue_detail_view.show_transitions = FALSE])}
    ELSE {Done(a)}

\* the arms shared by the three text-entry handlers (Backspace, Left, Right, Char)
text_input(a, key) ==
    IF key.code = "Backspace" THEN Store(a, "input_view", {InputView_pop_char(a.input_view)})
    ELSE IF key.code = "Left" THEN
        {Done([a EXCEPT !.input_view = InputView_move_cursor_left(@)])}
    ELSE IF key.code = "Right" THEN
        {Done([a EXCEPT !.input_view = InputView_move_cursor_right(@)])}
    ELSE IF key.code = "Char" THEN
        Store(a, "input_view", {InputView_push_char(a.input_view, key.ch)})
    ELSE {Done(a)}

\* handle_comment_input that posts the buffer without looking at it
handle_comment_input_PostsEmpty(a, key) ==
    IF key.code = "Esc" THEN
        {Done([a EXCEPT !.input_view = InputView_clear(@), !.mode = "IssueDetail"])}
    ELSE IF key.code = "Enter" THEN
        IF IsSome(a.issue_detail_view.issue)
        THEN {Await(a, "add_comment",
                    [Request("add_comment") EXCEPT
                         !.issue = Unwrap(a.issue_detail_view.issue).key,
                         !.body = a.input_view.input])}
        ELSE {Done([a EXCEPT !.input_view = InputView_clear(@), !.mode = "IssueDetail"])}
    ELSE text_input(a, key)

handle_comment_input(a, key) ==
    IF key.code = "Esc" THEN
        {Done([a EXCEPT !.input_view = InputView_clear(@), !.mode = "IssueDetail"])}
    ELSE IF key.code = "Enter" THEN
        IF IsSome(a.issue_detail_view.issue) /\ a.input_view.input # <<>>
        THEN {Await(a, "add_comment",
                    [Request("add_comment") EXCEPT
                         !.issue = Unwrap(a.issue_detail_view.issue).key,
                         !.body = a.input_view.input])}
        ELSE {Done([a EXCEPT !.input_view = InputView_clear(@), !.mode = "IssueDetail"])}
    ELSE text_input(a, key)

\* handle_edit_input that writes the buffer into the issue shown
handle_edit_input_EditsShown(a, key) ==
    IF key.code = "Esc" THEN
        {Done([a EXCEPT !.input_view = InputView_clear(@), !.mode = "IssueDetail"])}
    ELSE IF key.code = "Enter" THEN
        {Done([a EXCEPT
               !.issue_detail_view.issue =
                   IF IsSome(@) /\ a.input_view.input # <<>>
                   THEN Some([Unwrap(@) EXCEPT !.summary = a.input_view.input])
                   ELSE @,
               !.input_view = InputView_clear(@),
               !.mode = "IssueDetail"])}
    ELSE text_input(a, key)

handle_edit_input(a, key) ==
    IF key.code = "Esc" THEN
        {Done([a EXCEPT !.input_view = InputView_clear(@), !.mode = "IssueDetail"])}
    ELSE IF key.code = "Enter" THEN
        {Done([a EXCEPT !.input_view = InputView_clear(@), !.mode = "IssueDetail"])}
    ELSE text_input(a, key)

handle_sprint_selector_input(a, key) ==
    IF IsChar(key, 113) THEN {Done([a EXCEPT !.should_quit = TRUE])}
    ELSE IF IsChar(key, 104) THEN {Done([a EXCEPT !.show_help = ~@])}
    ELSE IF key.code = "Esc" THEN
        {Done([a EXCEPT !.sprint_selector.is_active = FALSE, !.mode = "Sprint"])}
    ELSE IF key.code = "Down" \/ IsChar(key, 106) THEN
        Store(a, "sprint_selector", SprintSelector_next(a.sprint_selector))
    ELSE IF key.code = "Up" \/ IsChar(key, 107) THEN
        Store(a, "sprint_selector", SprintSelector_previous(a.sprint_selector))
    ELSE IF key.code = "Enter" THEN
        LET sprint == SprintSelector_selected_sprint(a.sprint_selector)
        IN  IF IsSome(sprint)
            THEN {load_sprint_issues([a EXCEPT !.current_sprint_id = Some(Unwrap(sprint).id)],
                                     Unwrap(sprint).id)}
            ELSE {Done(a)}
    ELSE IF IsChar(key, 101) THEN
        LET sprint == SprintSelector_selected_sprint(a.sprint_selector)
        IN  IF IsSome(sprint)
            THEN {Done([a EXCEPT
                        !.input_view = InputView_seed(StrEditSprintName \o Unwrap(sprint).name,
                                                      Unwrap(sprint).name),
                        !.mode = "EditSprintName"])}
            ELSE {Done(a)}
    ELSE {Done(a)}

handle_edit_sprint_name_input(a, key) ==
    IF key.code = "Esc" THEN
        {Done([a EXCEPT !.input_view = InputView_clear(@), !.mode = "SprintSelector"])}
    ELSE IF key.code = "Enter" THEN
        LET sprint == SprintSelector_selected_sprint(a.sprint_selector)
        IN  IF IsSome(sprint) /\ a.input_view.input # <<>>
            THEN {Await(a, "update_sprint",
                        [Request("update_sprint") EXCEPT
                             !.sprint = Unwrap(sprint).id, !.body = a.input_view.input])}
            ELSE {AfterRefreshSprints(a)}
    ELSE text_input(a, key)

\* a board switch that keeps the cached sprint data
select_board_KeepSprints(a, board_id) ==
    [a EXCEPT !.default_board_id = Some(board_id)]

\* a board switch that keeps the current sprint id
select_board_KeepsCurrentSprint(a, board_id) ==
    [a EXCEPT !.default_board_id = Some(board_id),
              !.available_sprints = <<>>]

\* Enter on a board: the new default board, the sprint data cleared
\* (app.rs:365-368)
select_board(a, board_id) ==
    [a EXCEPT !.default_board_id = Some(board_id),
              !.available_sprints = <<>>,
              !.current_sprint_id = None]

\* handle_board_selector_input whose Esc leaves the selector active
handle_board_selector_input_EscStaysActive(a, key) ==
    IF IsChar(key, 113) THEN {Done([a EXCEPT !.should_quit = TRUE])}
    ELSE IF IsChar(key, 104) THEN {Done([a EXCEPT !.show_help = ~@])}
    ELSE IF key.code = "Esc" THEN {Done([a EXCEPT !.mode = "Sprint"])}
    ELSE IF key.code = "Down" \/ IsChar(key, 106) THEN
        Store(a, "board_selector", BoardSelector_next(a.board_selector))
    ELSE IF key.code = "Up" \/ IsChar(key, 107) THEN
        Store(a, "board_selector", BoardSelector_previous(a.board_selector))
    ELSE IF key.code = "Enter" THEN
        LET board == BoardSelector_selected_board(a.board_selector)
        IN  IF IsSome(board)
            THEN {refresh_sprint(select_board(a, Unwrap(board).id), "BoardSelector")}
            ELSE {Done(a)}
    ELSE {Done(a)}

handle_board_selector_input(a, key) ==
    IF IsChar(key, 113) THEN {Done([a EXCEPT !.should_quit = TRUE])}
    ELSE IF IsChar(key, 104) THEN {Done([a EXCEPT !.show_help = ~@])}
    ELSE IF key.code = "Esc" THEN
        {Done([a EXCEPT !.board_selector.is_active = FALSE, !.mode = "Sprint"])}
    ELSE IF key.code = "Down" \/ IsChar(key, 106) THEN
        Store(a, "board_selector", BoardSelector_next(a.board_selector))
    ELSE IF key.code = "Up" \/ IsChar(key, 107) THEN
        Store(a, "board_selector", BoardSelector_previous(a.board_selector))
    ELSE IF key.code = "Enter" THEN
        LET board == BoardSelector_selected_board(a.board_selector)
        IN  IF IsSome(board)
            THEN {refresh_sprint(select_board(a, Unwrap(board).id), "BoardSelector")}
            ELSE {Done(a)}
    ELSE {Done(a)}

handle_project_selector_input(a, key) ==
    IF IsChar(key, 113) THEN {Done([a EXCEPT !.should_quit = TRUE])}
    ELSE IF IsChar(key, 104) THEN {Done([a EXCEPT !.show_help = ~@])}
    ELSE IF key.code = "Esc" THEN
        {Done([a EXCEPT !.project_selector.is_active = FALSE, !.mode = "Sprint"])}
    ELSE IF key.code = "Down" \/ IsChar(key, 106) THEN
        Store(a, "project_selector", ProjectSelector_next(a.project_selector))
    ELSE IF key.code = "Up" \/ IsChar(key, 107) THEN
        Store(a, "project_selector", ProjectSelector_previous(a.project_selector))
    ELSE IF key.code = "Enter" THEN
        IF IsSome(ProjectSelector_selected_project(a.project_selector))
        THEN {Await(a, "project_get_boards", Request("get_boards"))}
        ELSE {Done(a)}
    ELSE {Done(a)}

\* handle_event on Event::Key: the overlay first, then the mode
handle_key(a, key) ==
    IF a.show_help THEN handle_help_input(a, key)
    ELSE CASE a.mode = "Sprint"          -> handle_sprint_input(a, key)
           [] a.mode = "SprintSelector"  -> handle_sprint_selector_input(a, key)
           [] a.mode = "BoardSelector"   -> handle_board_selector_input(a, key)
           [] a.mode = "ProjectSelector" -> handle_project_selector_input(a, key)
           [] a.mode = "Backlog"         -> handle_backlog_input(a, key)
           [] a.mode = "IssueDetail"     -> handle_issue_detail_input(a, key)
           [] a.mode = "AddComment"      -> handle_comment_input(a, key)
           [] a.mode = "EditIssue"       -> handle_edit_input(a, key)
           [] a.mode = "EditSprintName"  -> handle_edit_sprint_name_input(a, key)
           [] OTHER                      -> handle_help_input(a, key)

\* ---- the segments that follow a successful response

\* a filter that takes every board that has a location
BoardMatchesProject_AnyLocation(board, project_key) ==
    \/ StrContains(board.name, project_key)
    \/ IsSome(board.location)

\* the filter of handle_project_selector_input (app.rs:396-401)
BoardMatchesProject(board, project_key) ==
    \/ StrContains(board.name, project_key)
    \/ /\ IsSome(board.location)
       /\ Unwrap(board.location).project_key = Some(project_key)

project_boards(boards, project_key) ==
    FilterSeq(boards, {i \in DOMAIN boards : BoardMatchesProject(boards[i], project_key)})

\* a selection that makes the last match the default board
select_project_boards_LastMatch(a, matching) ==
    [a EXCEPT !.available_boards = matching,
              !.default_board_id = Some(matching[Len(matching)].id),
              !.available_sprints = <<>>,
              !.current_sprint_id = None]

\* Enter on a project with matching boards: they become the available
\* boards, the first the default board, the sprint data cleared (app.rs:406-411)
select_project_boards(a, matching) ==
    [a EXCEPT !.available_boards = matching,
              !.default_board_id = Some(matching[1].id),
              !.available_sprints = <<>>,
              !.current_sprint_id = None]

\* an initialize that makes the first board the default whatever is configured
initialize_boards_OverridesDefault(a, boards) ==
    LET a1 == [a EXCEPT !.available_boards = boards]
        a2 == IF a1.available_boards # <<>>
              THEN [a1 EXCEPT !.default_board_id = Some(a1.available_boards[1].id)]
              ELSE a1
    IN  refresh_sprint(a2, "Init")

\* initialize from the boards on (app.rs:507-518)
initialize_boards(a, boards) ==
    LET a1 == [a EXCEPT !.available_boards = boards]
        a2 == IF a1.default_board_id = None /\ a1.available_boards # <<>>
              THEN [a1 EXCEPT !.default_board_id = Some(a1.available_boards[1].id)]
              ELSE a1
    IN  refresh_sprint(a2, "Init")

\* the segment of the handler `caller` that is suspended at `label` on the
\* request c, given the result the client returns
Resume(label, a, c, result, caller) ==
    CASE label = "init_projects" ->
            Await([a EXCEPT !.available_projects = result], "init_boards",
                  Request("get_boards"))
      [] label = "init_boards" -> initialize_boards(a, result)
      [] label = "refresh_sprint_list" ->
            refresh_sprint_target([a EXCEPT !.available_sprints = result], c.board, caller)
      [] label = "refresh_sprint_issues" ->
            LET sprint == Unwrap(FindSeq(a.available_sprints,
                               {i \in DOMAIN a.available_sprints : a.available_sprints[i].id = c.sprint}))
            IN  AfterRefreshSprint(
                    [a EXCEPT !.sprint_view =
                        SprintView_set_issues(@, result, sprint.name, sprint.goal)],
                    caller)
      [] label = "load_backlog" ->
            Done([a EXCEPT !.backlog_view = BacklogView_set_issues(@, result)])
      [] label = "load_transitions" ->
            LET a1 == [a EXCEPT !.issue_detail_view =
                                    IssueDetailView_set_transitions(@, result)]
            IN  IF caller = "IssueDetail"
                THEN Done([a1 EXCEPT !.issue_detail_view.show_transitions = FALSE])
                ELSE Done([a1 EXCEPT !.mode = "IssueDetail"])
      [] label = "transition_issue" ->
            Await(a, "transition_get_issue", [Request("get_issue") EXCEPT !.issue = c.issue])
      [] label = "transition_get_issue" ->
            load_transitions(
                [a EXCEPT !.issue_detail_view = IssueDetailView_set_issue(@, result)],
                c.issue)
      [] label = "add_comment" ->
            Await(a, "comment_get_issue", [Request("get_issue") EXCEPT !.issue = c.issue])
      [] label = "comment_get_issue" ->
            Done([a EXCEPT !.issue_detail_view = IssueDetailView_set_issue(@, result),
                           !.input_view = InputView_clear(@),
                           !.mode = "IssueDetail"])
      [] label = "load_sprint_issues" ->
            LET found == FindSeq(a.available_sprints,
                               {i \in DOMAIN a.available_sprints : a.available_sprints[i].id = c.sprint})
                sprint_name == IF IsSome(found) THEN Unwrap(found).name
                               ELSE StrSprint \o <<32>> \o Decimal(c.sprint)
                sprint_goal == IF IsSome(found) THEN Unwrap(found).goal ELSE None
            IN  Done([a EXCEPT
                      !.sprint_view = SprintView_set_issues(@, result, sprint_name, sprint_goal),
                      !.sprint_selector.is_active = FALSE,
                      !.mode = "Sprint"])
      [] label = "update_sprint" -> refresh_sprints(a)
      [] label = "refresh_sprints" ->
            AfterRefreshSprints(
                [a EXCEPT !.available_sprints = result,
                          !.sprint_selector = SprintSelector_set_sprints(@, result)])
      [] label = "project_get_boards" ->
            LET project == Unwrap(ProjectSelector_selected_project(a.project_selector))
                matching == project_boards(result, project.key)
            IN  IF matching # <<>>
                THEN refresh_sprint(select_project_boards(a, matching), "ProjectSelector")
                ELSE Done([a EXCEPT !.project_selector.is_active = FALSE, !.mode = "Sprint"])

\* what the client returns for a request the service answers
ResultOf(s, c) ==
    CASE c.op = "get_projects"      -> get_projects
      [] c.op = "get_boards"        -> get_boards
      [] c.op = "get_board_sprints" -> get_board_sprints(s, c.board)
      [] c.op = "get_sprint_issues" -> get_sprint_issues(s, c.board, c.sprint)
      [] c.op = "get_backlog"       -> get_backlog(s, c.board)
      [] c.op = "get_transitions"   -> get_transitions(s, c.issue)
      [] c.op = "get_issue"         -> get_issue(s, c.issue)
      [] OTHER                      -> <<>>

\* the service after it has answered the request
ServiceAfter(s, c) ==
    CASE c.op = "transition_issue" -> transition_issue(s, c.issue, c.transition)
      [] c.op = "add_comment"      -> add_comment(s, c.issue, c.body)
      [] c.op = "update_sprint"    -> update_sprint(s, c.sprint, c.body)
      [] OTHER                     -> s

(***************************************************************************)
(* main and run_app (src/main.rs) with the event source                    *)
(* (src/ui/events.rs): the controller's specification.                     *)
(*   loop = "start"        before app.initialize()                         *)
(*          "init"         initialize is suspended on a request            *)
(*          "draw"         run_app is at the top of its loop               *)
(*          "wait"         run_app is suspended on event_handler.next()    *)
(*          "handling"     handle_event is suspended on a request          *)
(*          "stopped_ok"   run_app returned Ok(())                         *)
(*          "stopped_err"  run_app returned an error                       *)
(*          "panicked"     the process panicked                            *)
(***************************************************************************)
NoEvent == [mode |-> "-", key |-> Key("-")]
InitEvent == [mode |-> "Init", key |-> Key("-")]

\* the part of the state that belongs to the other specifications
Idle == [on |-> FALSE]

CommandChars == {113, 104, 115, 98, 114, 66, 80, 106, 107, 99, 101, 116}
SpecialKeys == {"Tab", "Enter", "Esc", "Backspace", "Left", "Right", "Down", "Up"}
\* the keys the operator presses: the bound ones and one two-byte character
AllKeys ==
    {KeyChar(<<b>>) : b \in CommandChars} \cup {KeyChar(<<195, 169>>)}
        \cup {Key(code) : code \in SpecialKeys}
\* the characters the operator types into a text-entry mode
TypedChars == {<<113>>, <<104>>, <<195, 169>>}

TextModes == {"AddComment", "EditIssue", "EditSprintName"}

\* the keys the event source delivers in a state: the operator types at most
\* MaxInput bytes, makes at most MaxWrites writes and moves no selection out
\* of reach
\* a selection moved MaxStale or more past the end of its list, short of
\* usize::MAX
OutOfReach(a) ==
    \E c \in {<<Len(a.sprint_view.issues), a.sprint_view.state>>,
              <<Len(a.backlog_view.issues), a.backlog_view.state>>,
              <<Len(a.sprint_selector.sprints), a.sprint_selector.state>>,
              <<Len(a.board_selector.boards), a.board_selector.state>>,
              <<Len(a.project_selector.projects), a.project_selector.state>>,
              <<Len(a.issue_detail_view.transitions),
                a.issue_detail_view.transition_state>>} :
        /\ IsSome(c[2])
        /\ Unwrap(c[2]) >= c[1] + MaxStale
        /\ Unwrap(c[2]) < UsizeMax

Offered(a, s) ==
    {k \in AllKeys :
        /\ \A o \in handle_key(a, k) : ~OutOfReach(o.app)
        /\ (a.mode \in TextModes /\ k.code = "Char") =>
               /\ k.ch \in TypedChars
               /\ Len(a.input_view.input) + Len(k.ch) <= MaxInput
        /\ (\E o \in handle_key(a, k) :
               o.st = "await"
               /\ Unwrap(o.call).op \in {"transition_issue", "add_comment", "update_sprint"})
           => s.writes < MaxWrites}

\* the configured default board
ConfiguredBoards == {None, Some(2)}

Init ==
    /\ app \in {App_new(b) : b \in ConfiguredBoards}
    /\ srv = SrvInit
    /\ loop = "start"
    /\ pc = "-"
    /\ call = None
    /\ pre \in {app}
    /\ last = NoEvent
    /\ pg = Idle
    /\ inp = Idle
    /\ log = <<>>
    /\ ls = Idle
    /\ http = Idle
    /\ queue = Idle
    /\ prod = Idle
    /\ term = Idle
    /\ nav = Idle

\* the handler whose segment is running
Caller == last.mode

\* run_app that goes on drawing whatever handle_event returns
Commit_IgnoresQuit(o, initializing) ==
    /\ app' = o.app
    /\ pc' = o.pc
    /\ call' = o.call
    /\ loop' = CASE o.st = "panic" -> "panicked"
                 [] o.st = "await" -> IF initializing THEN "init" ELSE "handling"
                 [] OTHER -> "draw"

\* an outcome of a segment becomes the next state
Commit(o, initializing) ==
    /\ app' = o.app
    /\ pc' = o.pc
    /\ call' = o.call
    /\ loop' = CASE o.st = "panic" -> "panicked"
                 [] o.st = "await" -> IF initializing THEN "init" ELSE "handling"
                 [] OTHER -> IF ~initializing /\ o.app.should_quit
                             THEN "stopped_ok" ELSE "draw"

\* the entries of log: a request issued by a segment, and the answer to the
\* request in flight
Issued(o) ==
    IF o.st = "await" THEN <<[ev |-> "issue", op |-> Unwrap(o.call).op]>> ELSE <<>>
Answered(c, ok) == <<[ev |-> IF ok THEN "ok" ELSE "err", op |-> c.op]>>

\* main calls app.initialize(): up to its first request
Initialize ==
    /\ loop = "start"
    /\ pre' = app
    /\ last' = InitEvent
    /\ Commit(Await(app, "init_projects", Request("get_projects")), TRUE)
    /\ log' = Issued(Await(app, "init_projects", Request("get_projects")))
    /\ UNCHANGED <<srv, pg, inp, ls, http, queue, prod, term, nav>>

\* run_app draws and then waits for the next event
Draw ==
    /\ loop = "draw"
    /\ loop' = "wait"
    /\ pre' = app
    /\ last' = NoEvent
    /\ log' = <<>>
    /\ UNCHANGED <<app, srv, pc, call, pg, inp, ls, http, queue, prod, term, nav>>

\* the keys of the selection scenario: the operator stays with the sprint
\* view and the three selectors (opens no issue, no backlog, edits no name)
SelectionKeys(a, s) ==
    {k \in Offered(a, s) :
        /\ ~(a.mode = "Sprint" /\ (k.code = "Enter" \/ IsChar(k, 98)))
        /\ ~(a.mode = "SprintSelector" /\ IsChar(k, 101))}

\* run_app takes a key event and calls handle_event.  pre and last keep the
\* event and the App before it from the handler's first request on.
HandleKey ==
    /\ loop = "wait"
    /\ \E key \in SelectionKeys(app, srv) :
          \E o \in handle_key(app, key) :
             /\ Commit(o, FALSE)
             /\ pre' = IF o.st = "await" THEN app ELSE o.app
             /\ last' = IF o.st = "await"
                        THEN [mode |-> IF app.show_help THEN "Help" ELSE app.mode,
                              key |-> key]
                        ELSE NoEvent
             /\ log' = Issued(o)
    /\ UNCHANGED <<srv, pg, inp, ls, http, queue, prod, term, nav>>

\* run_app takes a Tick
HandleTick ==
    /\ loop = "wait"
    /\ pre' = app
    /\ last' = NoEvent
    /\ Commit(Done(app), FALSE)
    /\ log' = <<>>
    /\ UNCHANGED <<srv, pg, inp, ls, http, queue, prod, term, nav>>

\* the request in flight succeeds and the suspended handler goes on
ResponseOk ==
    /\ loop \in {"init", "handling"}
    /\ call # None
    /\ Answerable(srv, Unwrap(call))
    /\ srv' = ServiceAfter(srv, Unwrap(call))
    /\ Commit(Resume(pc, app, Unwrap(call), ResultOf(srv', Unwrap(call)), Caller),
              loop = "init")
    /\ log' = log \o Answered(Unwrap(call), TRUE)
                  \o Issued(Resume(pc, app, Unwrap(call), ResultOf(srv', Unwrap(call)), Caller))
    /\ UNCHANGED <<pre, last, pg, inp, ls, http, queue, prod, term, nav>>

\* initialize: get_projects or get_boards fails and unwrap_or_default goes on
\* with the empty list
InitListErr ==
    /\ loop = "init"
    /\ pc \in {"init_projects", "init_boards"}
    /\ Commit(Resume(pc, app, Unwrap(call), <<>>, Caller), TRUE)
    /\ log' = log \o Answered(Unwrap(call), FALSE)
                  \o Issued(Resume(pc, app, Unwrap(call), <<>>, Caller))
    /\ UNCHANGED <<srv, pre, last, pg, inp, ls, http, queue, prod, term, nav>>

\* main gives up when initialize returns an error
InitErr_Aborts ==
    /\ loop = "init"
    /\ pc \notin {"init_projects", "init_boards"}
    /\ loop' = "stopped_err"
    /\ pc' = "err"
    /\ call' = None
    /\ log' = log \o Answered(Unwrap(call), FALSE)
    /\ UNCHANGED <<app, srv, pre, last, pg, inp, ls, http, queue, prod, term, nav>>

\* initialize returns the error of refresh_sprint; main reports it and goes
\* on to run_app
InitErr ==
    /\ loop = "init"
    /\ pc \notin {"init_projects", "init_boards"}
    /\ loop' = "draw"
    /\ pc' = "err"
    /\ call' = None
    /\ log' = log \o Answered(Unwrap(call), FALSE)
    /\ UNCHANGED <<app, srv, pre, last, pg, inp, ls, http, queue, prod, term, nav>>

\* a failed request whose error is dropped: the handler goes on as after an
\* empty answer where its next segment can
HandlerErr_GoesOn ==
    /\ loop = "handling"
    /\ LET o == IF pc \in {"transition_issue", "add_comment", "update_sprint"}
                THEN Resume(pc, app, Unwrap(call), <<>>, Caller)
                ELSE [app |-> app, st |-> "stop", pc |-> "err", call |-> None]
       IN  /\ app' = o.app
           /\ pc' = o.pc
           /\ call' = o.call
           /\ loop' = IF o.st = "await" THEN "handling"
                      ELSE IF o.st = "stop" THEN "stopped_err" ELSE "draw"
           /\ log' = log \o Answered(Unwrap(call), FALSE) \o Issued(o)
    /\ UNCHANGED <<srv, pre, last, pg, inp, ls, http, queue, prod, term, nav>>

\* a request of handle_event fails: `?` returns the error out of
\* handle_event and out of run_app
HandlerErr ==
    /\ loop = "handling"
    /\ loop' = "stopped_err"
    /\ pc' = "err"
    /\ call' = None
    /\ log' = log \o Answered(Unwrap(call), FALSE)
    /\ UNCHANGED <<app, srv, pre, last, pg, inp, ls, http, queue, prod, term, nav>>

Next ==
    \/ Initialize
    \/ Draw
    \/ HandleKey
    \/ HandleTick
    \/ ResponseOk
    \/ InitListErr
    \/ InitErr
    \/ HandlerErr

Spec == Init /\ [][Next]_vars

(***************************************************************************)
(* Properties of the controller.                                           *)
(***************************************************************************)
EnterKey == Key("Enter")

\* handle_event has returned the error of a failed request
HandlerFailed == loop = "stopped_err"

\* C1: when a request made while handling a key fails, the controller state
\* after handle_event has returned the error is the state before the event:
\* mode, current sprint id, default board id, cached sprint list and the
\* sprint, backlog and issue-detail contents are unchanged.
C1_FailedActionLeavesStateUntouched ==
    HandlerFailed =>
        /\ app.mode = pre.mode
        /\ app.current_sprint_id = pre.current_sprint_id
        /\ app.default_board_id = pre.default_board_id
        /\ app.available_sprints = pre.available_sprints
        /\ app.sprint_view = pre.sprint_view
        /\ app.backlog_view = pre.backlog_view
        /\ app.issue_detail_view = pre.issue_detail_view

\* C2: a request that fails while an event is handled aborts only that
\* step: the event loop keeps running and takes later events.
C2_LoopSurvivesFailedRequest ==
    (pc = "err" /\ last.mode # "Init") => loop \in {"draw", "wait", "handling"}

\* C3: every selection cursor is None exactly when its list is empty and
\* otherwise Some(i) with 0 <= i < len.
CursorOk(list, selected) ==
    IF list = <<>> THEN selected = None
    ELSE IsSome(selected) /\ 0 <= Unwrap(selected) /\ Unwrap(selected) < Len(list)

C3_SelectionCursorInvariant ==
    /\ CursorOk(app.sprint_view.issues, app.sprint_view.state)
    /\ CursorOk(app.backlog_view.issues, app.backlog_view.state)
    /\ CursorOk(app.issue_detail_view.transitions, app.issue_detail_view.transition_state)
    /\ CursorOk(app.sprint_selector.sprints, app.sprint_selector.state)
    /\ CursorOk(app.board_selector.boards, app.board_selector.state)
    /\ CursorOk(app.project_selector.projects, app.project_selector.state)

\* Enter was pressed in BoardSelector on a selected board and is being, or
\* has just been, handled
BoardEnter == last = [mode |-> "BoardSelector", key |-> EnterKey]
BoardChosen == Unwrap(BoardSelector_selected_board(pre.board_selector)).id

\* C5: on Enter in BoardSelector the default board becomes the selected
\* board, and when the sprint reload request is issued (before any response
\* is applied) the cached sprint list is empty and the current sprint id is
\* unset; the request for the sprint's issues comes only after the list of
\* the new board has been received.
C5_BoardSwitchInvalidation ==
    BoardEnter =>
        /\ app.default_board_id = Some(BoardChosen)
        /\ (loop = "handling" /\ pc = "refresh_sprint_list") =>
              /\ app.available_sprints = <<>>
              /\ app.current_sprint_id = None
              /\ Unwrap(call).op = "get_board_sprints"
              /\ Unwrap(call).board = BoardChosen
        /\ (loop = "handling" /\ pc # "refresh_sprint_list") =>
              /\ pc = "refresh_sprint_issues"
              /\ {s.id : s \in Range(app.available_sprints)}
                    = Range(ServerSprintIds[BoardChosen])

C5_Witness ==
    /\ BoardEnter
    /\ loop = "handling"
    /\ pc = "refresh_sprint_list"
    /\ pre.default_board_id # app.default_board_id
    /\ pre.available_sprints # <<>>
    /\ pre.current_sprint_id # None

\* the board a sprint belongs to, and the sprints and issues of the others
SprintsOfOtherBoards(b) == UNION {Range(ServerSprintIds[o]) : o \in BoardIds \ {b}}
IssuesOfOtherBoards(b) ==
    UNION {Range(ServerSprintIssues[s]) : s \in SprintsOfOtherBoards(b)}

\* the sprint view and the current sprint id hold nothing of another board
NothingOfOtherBoards(a) ==
    LET b == Unwrap(a.default_board_id) IN
    /\ IsSome(a.current_sprint_id) => Unwrap(a.current_sprint_id) \notin SprintsOfOtherBoards(b)
    /\ \A i \in Range(a.sprint_view.issues) : i.key \notin IssuesOfOtherBoards(b)
    /\ a.sprint_view.sprint_name \notin {srv.sprint_name[s] : s \in SprintsOfOtherBoards(b)}

\* C6: once a different board has been selected, no state in which it is
\* the default board shows a sprint name or issues loaded for a sprint of
\* the previous board, nor a current sprint id of the previous board,
\* whether the reload for the new board succeeds or fails.
C6_NoStaleSprintAfterBoardSwitch ==
    (/\ BoardEnter
     /\ loop \in {"draw", "stopped_err"}
     /\ pre.default_board_id # app.default_board_id)
        => NothingOfOtherBoards(app)

\* Enter was pressed in ProjectSelector on a selected project and is being,
\* or has just been, handled
ProjectEnter == last = [mode |-> "ProjectSelector", key |-> EnterKey]
ProjectChosen == Unwrap(ProjectSelector_selected_project(pre.project_selector)).key

\* the project key K matches a board: its name contains K, or its location
\* carries the project key K
NameContains(name, K) ==
    \E i \in 1..Len(name) : \E j \in i..Len(name) : SubSeq(name, i, j) = K
LocationKey(board) ==
    IF board.location = <<>> THEN <<>> ELSE board.location[1].project_key
MatchesKey(board, K) == NameContains(board.name, K) \/ LocationKey(board) = <<K>>
MatchesOf(boards, K) == {i \in DOMAIN boards : MatchesKey(boards[i], K)}

\* seq is the boards of `boards` that match K, in their order in `boards`
IsMatchesInOrder(seq, boards, K) ==
    /\ Len(seq) = Cardinality(MatchesOf(boards, K))
    /\ \A n \in DOMAIN seq :
          \E i \in MatchesOf(boards, K) :
             /\ seq[n] = boards[i]
             /\ Cardinality({j \in MatchesOf(boards, K) : j < i}) = n - 1

HandlerEnded == loop \in {"draw", "stopped_err"}

BoardDataUnchanged ==
    /\ app.available_boards = pre.available_boards
    /\ app.default_board_id = pre.default_board_id
    /\ app.available_sprints = pre.available_sprints
    /\ app.current_sprint_id = pre.current_sprint_id
    /\ app.sprint_view = pre.sprint_view

\* C7 as stated: Enter in ProjectSelector on a project that matches no
\* board leaves the board and sprint data unchanged, deactivates the
\* selector and raises no error.
C7_Original ==
    (ProjectEnter /\ HandlerEnded /\ MatchesOf(ServerBoards, ProjectChosen) = {}) =>
        /\ loop # "stopped_err"
        /\ BoardDataUnchanged
        /\ ~app.project_selector.is_active

\* C7 (amended): Enter in ProjectSelector first requests the board list.
\* When the selected project matches none of the boards the service
\* returns, the one request is the only one; if it succeeds the board and
\* sprint data are unchanged, the selector is deactivated and the mode is
\* Sprint; if it fails the error is returned and the whole state is as
\* before the key.
C7_NoMatchIsNoOp ==
    (ProjectEnter /\ MatchesOf(ServerBoards, ProjectChosen) = {}) =>
        /\ loop = "handling" =>
              /\ pc = "project_get_boards"
              /\ Unwrap(call).op = "get_boards"
              /\ app = pre
        /\ loop = "draw" =>
              app = [pre EXCEPT !.project_selector.is_active = FALSE,
                                !.mode = "Sprint"]
        /\ loop = "stopped_err" => app = pre

C7_Witness ==
    /\ ProjectEnter
    /\ MatchesOf(ServerBoards, ProjectChosen) = {}
    /\ loop = "draw"
    /\ pre.available_boards # <<>>
    /\ pre.available_sprints # <<>>
    /\ pre.project_selector.is_active
    /\ ~app.project_selector.is_active

\* C8 as stated: Enter in ProjectSelector on a project K that matches a
\* known board replaces available_boards by the known boards that match K,
\* makes the first the default board and ends in Sprint mode.
C8_Original ==
    (ProjectEnter /\ HandlerEnded /\ MatchesOf(pre.available_boards, ProjectChosen) # {}) =>
        /\ IsMatchesInOrder(app.available_boards, pre.available_boards, ProjectChosen)
        /\ app.default_board_id = Some(app.available_boards[1].id)
        /\ app.mode = "Sprint"

\* C8 (amended): Enter in ProjectSelector on a project K first requests
\* the board list.  When K matches at least one of the boards the service
\* returns, available_boards becomes exactly the returned boards whose name
\* contains K or whose location's project key is K, in the returned order,
\* and the first is the default board; the sprint list is empty and the
\* current sprint id unset when the sprint list of that board is requested;
\* when the reload too succeeds the handler ends in Sprint mode with the
\* selector deactivated and the sprints of that board cached.  Until the
\* board list has arrived nothing has changed; when a request fails the
\* error is returned with the selector still active in ProjectSelector
\* mode, the state as before the key if it was the board list that failed.
C8_MatchReplacesBoards ==
    (ProjectEnter /\ MatchesOf(ServerBoards, ProjectChosen) # {}) =>
        /\ (loop = "handling" /\ pc = "project_get_boards") => app = pre
        /\ ~(loop \in {"handling", "stopped_err"} /\ pc \in {"project_get_boards", "err"}) =>
              /\ IsMatchesInOrder(app.available_boards, ServerBoards, ProjectChosen)
              /\ app.default_board_id = Some(app.available_boards[1].id)
        /\ (loop = "handling" /\ pc = "refresh_sprint_list") =>
              /\ app.available_sprints = <<>>
              /\ app.current_sprint_id = None
              /\ Unwrap(call).op = "get_board_sprints"
              /\ Some(Unwrap(call).board) = app.default_board_id
        /\ loop = "draw" =>
              /\ app.mode = "Sprint"
              /\ ~app.project_selector.is_active
              /\ {s.id : s \in Range(app.available_sprints)}
                    = Range(ServerSprintIds[Unwrap(app.default_board_id)])
        /\ loop = "stopped_err" =>
              \/ app = pre
              \/ /\ IsMatchesInOrder(app.available_boards, ServerBoards, ProjectChosen)
                 /\ app.default_board_id = Some(app.available_boards[1].id)
                 /\ app.mode = "ProjectSelector"
                 /\ app.project_selector.is_active

C8_Witness ==
    /\ ProjectEnter
    /\ loop = "draw"
    /\ Cardinality(MatchesOf(ServerBoards, ProjectChosen)) = 2
    /\ Len(pre.available_boards) = 1
    /\ Len(app.available_boards) = 2
    /\ pre.default_board_id # app.default_board_id

(***************************************************************************)
(* The input buffer alone: every sequence of its operations, from the      *)
(* empty buffer and from the seeded ones.                                   *)
(***************************************************************************)
\* the texts an edit mode seeds the buffer with: issue summaries and sprint
\* names
InputSeeds ==
    {IssueSummary(k) : k \in IssueKeys} \cup {SrvInit.sprint_name[s] : s \in SprintIds}

\* the buffer v after the operation op on the buffer `before`
InputState(v, st, op, before) ==
    [on |-> TRUE, view |-> v, st |-> st, op |-> op, before |-> before]

InitInput ==
    /\ app = App_new(None)
    /\ srv = SrvInit
    /\ loop = "start"
    /\ pc = "-"
    /\ call = None
    /\ pre = app
    /\ last = NoEvent
    /\ pg = Idle
    /\ log = <<>>
    /\ ls = Idle
    /\ http = Idle
    /\ queue = Idle
    /\ prod = Idle
    /\ term = Idle
    /\ nav = Idle
    /\ inp = InputState(InputView_new(StrInput), "ok", "new", InputView_new(StrInput))

InputFrame == UNCHANGED <<app, srv, loop, pc, call, pre, last, pg, log, ls, http, queue, prod, term, nav>>

InputPushChar ==
    /\ inp.st = "ok"
    /\ \E c \in TypedChars :
          /\ Len(inp.view.input) + Len(c) <= MaxText
          /\ LET r == InputView_push_char(inp.view, c)
             IN  inp' = InputState(r.v, IF r.panic THEN "panicked" ELSE "ok",
                                   "push_char", inp.view)
    /\ InputFrame

InputPopChar ==
    /\ inp.st = "ok"
    /\ LET r == InputView_pop_char(inp.view)
       IN  inp' = InputState(r.v, IF r.panic THEN "panicked" ELSE "ok",
                             "pop_char", inp.view)
    /\ InputFrame

InputMoveLeft ==
    /\ inp.st = "ok"
    /\ inp' = InputState(InputView_move_cursor_left(inp.view), "ok",
                         "move_cursor_left", inp.view)
    /\ InputFrame

InputMoveRight ==
    /\ inp.st = "ok"
    /\ inp' = InputState(InputView_move_cursor_right(inp.view), "ok",
                         "move_cursor_right", inp.view)
    /\ InputFrame

InputClear ==
    /\ inp.st = "ok"
    /\ inp' = InputState(InputView_clear(inp.view), "ok", "clear", inp.view)
    /\ InputFrame

InputSeed ==
    /\ inp.st = "ok"
    /\ \E text \in InputSeeds :
          /\ Len(text) <= MaxText
          /\ inp' = InputState(InputView_seed(StrEditIssueSummary, text), "ok",
                               "seed", inp.view)
    /\ InputFrame

NextInput ==
    \/ InputPushChar
    \/ InputPopChar
    \/ InputMoveLeft
    \/ InputMoveRight
    \/ InputClear
    \/ InputSeed

SpecInput == InitInput /\ [][NextInput]_vars

\* C4: after any sequence of insert, backspace, move-left, move-right,
\* clear and seeding, 0 <= cursor_position <= length of the text; backspace
\* at offset 0 and move-right at the end change nothing and do not panic.
C4_InputCursorWithinText ==
    inp.on =>
        /\ 0 <= inp.view.cursor_position
        /\ inp.view.cursor_position <= Len(inp.view.input)
        /\ (inp.op = "pop_char" /\ inp.before.cursor_position = 0) =>
              (inp.st = "ok" /\ inp.view = inp.before)
        /\ (inp.op = "move_cursor_right"
              /\ inp.before.cursor_position = Len(inp.before.input)) =>
              (inp.st = "ok" /\ inp.view = inp.before)

C4_Witness ==
    /\ inp.on
    /\ inp.op = "move_cursor_right"
    /\ Len(inp.before.input) >= 3
    /\ inp.before.cursor_position = Len(inp.before.input)
    /\ \E i \in DOMAIN inp.before.input : inp.before.input[i] >= 128

(***************************************************************************)
(* JiraClient::get_board_sprints alone, request by request, against a      *)
(* service that holds n sprints and serves them in pages of p.             *)
(***************************************************************************)
\* the services: "honest" reports isLast = true on the final page only,
\* "no_flag" leaves isLast out, "never_last" reports isLast = false on
\* every page
ServerKinds == {"honest", "no_flag", "never_last"}

\* the sprints the service holds, in its order
PageItems(n) == [i \in 1..n |-> i]

\* the response of the service to the request with ?startAt=start_at
Serve(kind, n, p, start_at) ==
    LET page == PageOf(PageItems(n), start_at, p)
    IN  CASE kind = "honest"  -> page
          [] kind = "no_flag" -> [page EXCEPT !.is_last = None]
          [] OTHER            -> [page EXCEPT !.is_last = Some(FALSE)]

InitPage ==
    /\ app = App_new(None)
    /\ srv = SrvInit
    /\ loop = "start"
    /\ pc = "-"
    /\ call = None
    /\ pre = app
    /\ last = NoEvent
    /\ inp = Idle
    /\ log = <<>>
    /\ ls = Idle
    /\ http = Idle
    /\ queue = Idle
    /\ prod = Idle
    /\ term = Idle
    /\ nav = Idle
    /\ \E n \in 0..MaxN, p \in 1..MaxP, kind \in ServerKinds :
          pg = [on |-> TRUE, kind |-> kind, n |-> n, p |-> p,
                st |-> "request", start_at |-> 0, all_sprints |-> <<>>,
                requests |-> 0, flags |-> <<>>]

PageFrame == UNCHANGED <<app, srv, loop, pc, call, pre, last, inp, log, ls, http, queue, prod, term, nav>>

\* the request is answered: one turn of the loop (client.rs:125-139)
PageResponse ==
    /\ pg.st = "request"
    /\ pg.requests < MaxRequests
    /\ LET response == Serve(pg.kind, pg.n, pg.p, pg.start_at)
           r == PageStep(pg.all_sprints, response)
       IN  pg' = [pg EXCEPT !.all_sprints = r.all_sprints,
                            !.st = IF r.break THEN "done" ELSE "request",
                            !.start_at = IF r.break THEN @ ELSE r.start_at,
                            !.requests = @ + 1,
                            !.flags = Append(@, response.is_last)]
    /\ PageFrame

\* the request fails and `?` returns the error (client.rs:132)
PageFail ==
    /\ pg.st = "request"
    /\ pg.requests < MaxRequests
    /\ pg' = [pg EXCEPT !.st = "err", !.requests = @ + 1]
    /\ PageFrame

NextPage ==
    \/ PageResponse
    \/ PageFail

SpecPage == InitPage /\ [][NextPage]_vars

\* the number of pages of n items in pages of p
PagesOf(n, p) == IF n = 0 THEN 1 ELSE (n + p - 1) \div p

\* C9: against a service that holds n sprints and serves them honestly in
\* pages of p, get_board_sprints returns exactly the n sprints, each once,
\* in the order of the service, and has collected the first pages at every
\* step on the way.
C9_PaginationComplete ==
    (pg.on /\ pg.kind = "honest") =>
        /\ pg.st = "done" =>
              /\ pg.all_sprints = PageItems(pg.n)
              /\ Len(pg.flags) = PagesOf(pg.n, pg.p)
        /\ pg.st # "done" =>
              /\ Len(pg.flags) < PagesOf(pg.n, pg.p)
              /\ pg.all_sprints = PageItems(Len(pg.flags) * pg.p)

C9_Witness ==
    /\ pg.on
    /\ pg.kind = "honest"
    /\ pg.st = "done"
    /\ pg.requests >= 3
    /\ pg.n % pg.p # 0
    /\ Len(pg.all_sprints) = pg.n

\* a response that ends the loop: isLast true or absent
Ending(flag) == flag = None \/ flag = Some(TRUE)

\* C10: the fetch stops exactly at the first response whose isLast is true
\* or absent: it has returned when and only when the latest response is
\* such a one, no earlier response is, one request is made when the first
\* response leaves isLast out, and against a service that reports isLast =
\* false on every page it has not returned after any number of requests.
C10_StopsAtFirstLastPage ==
    pg.on =>
        /\ \A i \in DOMAIN pg.flags : Ending(pg.flags[i]) => i = Len(pg.flags)
        /\ pg.st = "done" <=> (pg.flags # <<>> /\ Ending(pg.flags[Len(pg.flags)]))
        /\ pg.st = "done" => pg.requests = Len(pg.flags)
        /\ pg.kind = "no_flag" => pg.requests <= 1
        /\ (pg.kind = "no_flag" /\ pg.st = "done") => pg.requests = 1
        /\ pg.kind = "never_last" => pg.st # "done"
        /\ (pg.kind = "never_last" /\ pg.st = "request") =>
              pg.start_at = pg.requests * pg.p

C10_Witness ==
    /\ pg.on
    /\ pg.kind = "never_last"
    /\ pg.st = "request"
    /\ pg.requests * pg.p > pg.n + pg.p
    /\ pg.n > 0

(***************************************************************************)
(* The list operations of JiraClient alone, against a service that holds n *)
(* items of the collection asked for and serves them honestly in pages     *)
(* of p.                                                                   *)
(***************************************************************************)
ListOps == {"get_projects", "get_boards", "get_sprint_issues",
            "get_board_epics", "get_epic_issues", "get_board_sprints"}

\* what the operation returns when its requests succeed: get_board_sprints
\* runs its loop, the others return the items of the response to their one
\* request, which carries no startAt (client.rs:23-36, 102-114, 121-141,
\* 157-178)
ListOperation(op, n, p) ==
    IF op = "get_board_sprints"
    THEN GetBoardSprintsLoop([at \in 0..(n + p) |-> Serve("honest", n, p, at)], 0, <<>>)
    ELSE Serve("honest", n, p, 0).values

InitList ==
    /\ app = App_new(None)
    /\ srv = SrvInit
    /\ loop = "start"
    /\ pc = "-"
    /\ call = None
    /\ pre = app
    /\ last = NoEvent
    /\ pg = Idle
    /\ inp = Idle
    /\ log = <<>>
    /\ http = Idle
    /\ queue = Idle
    /\ prod = Idle
    /\ term = Idle
    /\ nav = Idle
    /\ \E op \in ListOps, n \in 0..MaxN, p \in 1..MaxP :
          ls = [on |-> TRUE, op |-> op, n |-> n, p |-> p, st |-> "call", result |-> <<>>]

ListFrame == UNCHANGED <<app, srv, loop, pc, call, pre, last, pg, inp, log, http, queue, prod, term, nav>>

\* the operation returns Ok(items)
ListReturn ==
    /\ ls.st = "call"
    /\ ls' = [ls EXCEPT !.st = "done", !.result = ListOperation(ls.op, ls.n, ls.p)]
    /\ ListFrame

\* a request of the operation fails and it returns the error
ListFail ==
    /\ ls.st = "call"
    /\ ls' = [ls EXCEPT !.st = "err"]
    /\ ListFrame

NextList ==
    \/ ListReturn
    \/ ListFail

SpecList == InitList /\ [][NextList]_vars

\* C11: every list operation of the client returns the items of all pages
\* of the collection as one collection, also when the collection spans
\* several pages.
C11_ListOperationsAggregatePages ==
    (ls.on /\ ls.st = "done") => ls.result = PageItems(ls.n)

(***************************************************************************)
(* send_request and send_agile_request alone: one request, answered by a   *)
(* response with a status and a body, or not answered at all.              *)
(***************************************************************************)
\* the responses of the service: success, created, no content, not
\* modified, bad request, not found, server error; a body that is the JSON of the type asked for
\* ("{}"), one that is no JSON ("<"), and the empty body
HttpStatuses == {200, 201, 204, 304, 400, 404, 500}
HttpBodies == {<<123, 125>>, <<60>>, <<>>}

\* Response::error_for_status: the error for a 4xx or 5xx status carries
\* the status (and the URL), the response and its body are dropped
error_for_status(response) ==
    IF response.status >= 400 /\ response.status <= 599
    THEN [ok |-> FALSE, err |-> [kind |-> "status", status |-> Some(response.status)]]
    ELSE [ok |-> TRUE, response |-> response]

\* Response::json: the value parsed from the body, or a decode error
json(response) ==
    IF response.body = <<123, 125>>
    THEN [ok |-> TRUE, value |-> response.body]
    ELSE [ok |-> FALSE, err |-> [kind |-> "decode", status |-> None]]

\* request.send().await?.error_for_status()?.json().await? on a response
\* (client.rs:201)
send_request(response) ==
    LET checked == error_for_status(response)
    IN  IF checked.ok THEN json(checked.response) ELSE checked

\* the same on the agile base path (client.rs:225)
send_agile_request(response) ==
    LET checked == error_for_status(response)
    IN  IF checked.ok THEN json(checked.response) ELSE checked

InitHttp ==
    /\ app = App_new(None)
    /\ srv = SrvInit
    /\ loop = "start"
    /\ pc = "-"
    /\ call = None
    /\ pre = app
    /\ last = NoEvent
    /\ pg = Idle
    /\ inp = Idle
    /\ log = <<>>
    /\ ls = Idle
    /\ queue = Idle
    /\ prod = Idle
    /\ term = Idle
    /\ nav = Idle
    /\ \E base \in {"api", "agile"}, status \in HttpStatuses, body \in HttpBodies :
          http = [on |-> TRUE, base |-> base, st |-> "sent",
                  response |-> [status |-> status, body |-> body],
                  result |-> [ok |-> FALSE, err |-> [kind |-> "-", status |-> None]]]

HttpFrame == UNCHANGED <<app, srv, loop, pc, call, pre, last, pg, inp, log, ls, queue, prod, term, nav>>

\* the response arrives and the call returns
HttpResponse ==
    /\ http.st = "sent"
    /\ http' = [http EXCEPT
                  !.st = "returned",
                  !.result = IF http.base = "api" THEN send_request(http.response)
                             ELSE send_agile_request(http.response)]
    /\ HttpFrame

\* no response arrives: send() fails
HttpSendFails ==
    /\ http.st = "sent"
    /\ http' = [http EXCEPT
                  !.st = "no_response",
                  !.result = [ok |-> FALSE, err |-> [kind |-> "request", status |-> None]]]
    /\ HttpFrame

NextHttp ==
    \/ HttpResponse
    \/ HttpSendFails

SpecHttp == InitHttp /\ [][NextHttp]_vars

\* C12: a call whose response has a status outside the success range
\* returns an error that carries the status and the response body, never a
\* parsed result.
C12_FailureStatusBecomesError ==
    (http.on /\ http.st = "returned"
        /\ ~(http.response.status >= 200 /\ http.response.status <= 299)) =>
        /\ ~http.result.ok
        /\ http.result.err.status = Some(http.response.status)
        /\ "body" \in DOMAIN http.result.err
        /\ http.result.err.body = http.response.body

(***************************************************************************)
(* Properties of refresh_sprint and initialize (under Spec).               *)
(***************************************************************************)
\* refresh_sprint has chosen its target sprint without a remembered current
\* sprint id: it runs from initialize, after a board or project switch has
\* unset the id, or from a key pressed while the id was unset
ChoseWithoutCurrent ==
    /\ loop \in {"init", "handling"}
    /\ pc = "refresh_sprint_issues"
    /\ \/ last.mode \in {"Init", "BoardSelector", "ProjectSelector"}
       \/ pre.current_sprint_id = None

HighestSprintId(sprints) ==
    CHOOSE id \in {s.id : s \in Range(sprints)} :
        \A s \in Range(sprints) : s.id <= id

\* C13: refresh_sprint with a configured board, no remembered current
\* sprint id and at least one known sprint selects the sprint with the
\* highest id among the board's sprints, in whatever order the service
\* listed them: the current sprint id is that id and the issues requested
\* are that sprint's.
C13_SelectsHighestSprintId ==
    ChoseWithoutCurrent =>
        /\ app.current_sprint_id = Some(HighestSprintId(app.available_sprints))
        /\ Unwrap(call).op = "get_sprint_issues"
        /\ Unwrap(call).sprint = HighestSprintId(app.available_sprints)

\* initialize is running or has just returned
Initializing == last = InitEvent
InitReturned == Initializing /\ loop = "draw"

\* the entry of log that answers the request of initialize for op, if any
InitAnswer(op) ==
    {log[i].ev : i \in {j \in DOMAIN log : log[j].op = op /\ log[j].ev # "issue"}}

\* C14: whatever requests of initialize succeed or fail, initialize never
\* stops the program: while it runs a request is outstanding, and when it
\* has returned the event loop is entered with mode Sprint and should_quit
\* false; a failed projects or boards load leaves that collection empty and
\* the next step of initialize follows.
C14_InitializeNeverAborts ==
    Initializing =>
        /\ loop \in {"init", "draw"}
        /\ loop = "init" => call # None
        /\ app.mode = "Sprint"
        /\ ~app.should_quit
        /\ InitAnswer("get_projects") = {"err"} =>
              /\ app.available_projects = <<>>
              /\ \E i \in DOMAIN log : log[i] = [ev |-> "issue", op |-> "get_boards"]
        /\ InitAnswer("get_boards") = {"err"} =>
              /\ app.available_boards = <<>>
              /\ \/ loop = "draw"
                 \/ log[Len(log)] = [ev |-> "issue", op |-> "get_board_sprints"]
                 \/ InitAnswer("get_board_sprints") # {}
        /\ InitAnswer("get_projects") = {"ok"} => app.available_projects = get_projects
        /\ InitAnswer("get_boards") = {"ok"} => app.available_boards = get_boards

C14_Witness ==
    /\ InitReturned
    /\ InitAnswer("get_projects") = {"err"}
    /\ InitAnswer("get_boards") = {"ok"}
    /\ InitAnswer("get_board_sprints") = {"ok"}
    /\ InitAnswer("get_sprint_issues") = {"err"}

\* the operations requested in the step so far, in the order of the requests
IssuedOps ==
    LET IsIssue(e) == e.ev = "issue"
        issues == SelectSeq(log, IsIssue)
    IN  [i \in DOMAIN issues |-> issues[i].op]

IsPrefix(s, of) == Len(s) <= Len(of) /\ s = SubSeq(of, 1, Len(s))

\* C15: initialize requests the projects, then the boards, then the sprint
\* data (the sprint list, then the sprint's issues); it never changes a
\* configured default board; with none configured the default becomes the
\* first listed board once a non-empty board list is known; with none
\* configured and no boards known it requests no sprint data.
C15_InitializeOrderAndDefaultBoard ==
    Initializing =>
        /\ IsPrefix(IssuedOps,
                    <<"get_projects", "get_boards", "get_board_sprints", "get_sprint_issues">>)
        /\ pre.default_board_id # None => app.default_board_id = pre.default_board_id
        /\ (pre.default_board_id = None /\ InitAnswer("get_boards") = {}) =>
              app.default_board_id = None
        /\ (pre.default_board_id = None /\ InitAnswer("get_boards") # {}
              /\ app.available_boards # <<>>) =>
              /\ app.available_boards = ServerBoards
              /\ app.default_board_id = Some(ServerBoards[1].id)
        /\ (pre.default_board_id = None /\ InitAnswer("get_boards") # {}
              /\ app.available_boards = <<>>) =>
              /\ app.default_board_id = None
              /\ IssuedOps = <<"get_projects", "get_boards">>
              /\ loop = "draw"
        /\ Len(IssuedOps) >= 3 =>
              /\ app.default_board_id # None
              /\ InitAnswer("get_projects") # {}
              /\ InitAnswer("get_boards") # {}

C15_Witness ==
    /\ InitReturned
    /\ pre.default_board_id = None
    /\ app.default_board_id = Some(ServerBoards[1].id)
    /\ Len(IssuedOps) = 4
    /\ InitAnswer("get_projects") = {"err"}

\* ---------------------------------------------------------------------
\* The modes scenario: the operator walks through every mode of the App
\* (opens an issue, the backlog, the selectors, the three text-entry modes
\* and the help overlay) and presses q, h and Esc there.

\* the keys of the modes scenario: no selection is moved, no list reloaded,
\* nothing chosen in a selector and no text submitted.  While the overlay is
\* shown every key is pressed.
ModeKeys(a, s) ==
    {k \in Offered(a, s) :
        \/ a.show_help
        \/ IsChar(k, 113) \/ IsChar(k, 104) \/ k.code = "Esc"
        \/ a.mode = "Sprint"
             /\ (k.code \in {"Enter", "Tab"} \/ IsChar(k, 98) \/ IsChar(k, 66) \/ IsChar(k, 80))
        \/ a.mode = "Backlog" /\ (k.code = "Enter" \/ IsChar(k, 115))
        \/ a.mode = "IssueDetail"
             /\ (k.code = "Enter" \/ IsChar(k, 99) \/ IsChar(k, 101) \/ IsChar(k, 116))
        \/ a.mode = "SprintSelector" /\ IsChar(k, 101)}

\* run_app takes a key event and calls handle_event.  pre and last keep the
\* event and the App before it for every key.
HandleKeyModes ==
    /\ loop = "wait"
    /\ \E key \in ModeKeys(app, srv) :
          \E o \in handle_key(app, key) :
             /\ Commit(o, FALSE)
             /\ pre' = app
             /\ last' = [mode |-> IF app.show_help THEN "Help" ELSE app.mode, key |-> key]
             /\ log' = Issued(o)
    /\ UNCHANGED <<srv, pg, inp, ls, http, queue, prod, term, nav>>

NextModes ==
    \/ Initialize
    \/ Draw
    \/ HandleKeyModes
    \/ HandleTick
    \/ ResponseOk
    \/ InitListErr
    \/ InitErr
    \/ HandlerErr

SpecModes == Init /\ [][NextModes]_vars

\* a key event has been taken in the modes scenario
KeyTaken == last \notin {NoEvent, InitEvent}

\* C16: in every mode (Sprint, Backlog, IssueDetail, the three selectors, the
\* three text-entry modes and the help overlay) the key q sets should_quit
\* and handle_event returns true, so that the event loop terminates.
C16_QuitsInEveryMode ==
    (KeyTaken /\ IsChar(last.key, 113)) => (app.should_quit /\ loop = "stopped_ok")

\* C17: in every mode, the text-entry modes included, the key h shows the
\* help overlay when it is hidden and hides it when it is shown, and leaves
\* the mode and the text buffer unchanged.
C17_HelpTogglesInEveryMode ==
    (KeyTaken /\ IsChar(last.key, 104)) =>
        /\ app.show_help = ~pre.show_help
        /\ app.mode = pre.mode
        /\ app.input_view = pre.input_view

\* C18: while the help overlay is shown, every key other than q, h and Esc
\* leaves the whole state unchanged and issues no remote call; h and Esc
\* change the overlay flag and nothing else.
C18_HelpOverlaySwallowsKeys ==
    (KeyTaken /\ pre.show_help) =>
        /\ call = None /\ log = <<>> /\ loop \in {"draw", "stopped_ok"}
        /\ IF IsChar(last.key, 104) \/ last.key.code = "Esc"
           THEN app = [pre EXCEPT !.show_help = FALSE]
           ELSE IF IsChar(last.key, 113)
           THEN app = [pre EXCEPT !.should_quit = TRUE]
           ELSE app = pre /\ loop = "draw"

\* Enter was swallowed by the overlay over an open issue with a transition
\* selected, where it would have sent the transition
C18_Witness ==
    /\ KeyTaken /\ pre.show_help
    /\ pre.mode = "IssueDetail"
    /\ pre.issue_detail_view.transitions # <<>>
    /\ IsSome(pre.issue_detail_view.transition_state)
    /\ last.key.code = "Enter"
    /\ app = pre

\* ---------------------------------------------------------------------
\* The event queue: the task spawned by EventHandler::new sends key presses
\* and ticks into an unbounded channel while run_app receives them one at a
\* time and awaits handle_event before it receives the next.

\* the number of events the task sends
MaxEvents == 3

TickEvent == Key("Tick")

\* the events the task sends: r, b, s, h, q and the tick
QueueEvents == {KeyChar(<<b>>) : b \in {114, 98, 115, 104, 113}} \cup {TickEvent}

\* receiver.recv() with the newest event first
EventHandler_next_Newest(chan) ==
    [event |-> chan[Len(chan)], rest |-> SubSeq(chan, 1, Len(chan) - 1)]

\* receiver.recv(): the oldest event of the channel
EventHandler_next(chan) == [event |-> Head(chan), rest |-> Tail(chan)]

InitQueue ==
    /\ app \in {App_new(b) : b \in ConfiguredBoards}
    /\ srv = SrvInit
    /\ loop = "start"
    /\ pc = "-"
    /\ call = None
    /\ pre \in {app}
    /\ last = NoEvent
    /\ pg = Idle
    /\ inp = Idle
    /\ log = <<>>
    /\ ls = Idle
    /\ http = Idle
    /\ queue = [on |-> TRUE, chan |-> <<>>, sent |-> 0, taken |-> <<>>]
    /\ prod = Idle
    /\ term = Idle
    /\ nav = Idle

\* the spawned task sends an event; it runs from EventHandler::new on, also
\* while handle_event is suspended in a request and after run_app returned
Produce ==
    /\ queue.on
    /\ loop \in {"draw", "wait", "handling", "stopped_ok", "stopped_err"}
    /\ queue.sent < MaxEvents
    /\ \E e \in QueueEvents :
          queue' = [queue EXCEPT !.sent = @ + 1,
                                 !.chan = Append(@, [n |-> queue.sent + 1, event |-> e])]
    /\ UNCHANGED <<app, srv, loop, pc, call, pre, last, pg, inp, log, ls, http, prod, term, nav>>

\* run_app receives the next event and calls handle_event
TakeEvent ==
    /\ queue.on
    /\ loop = "wait"
    /\ queue.chan # <<>>
    /\ LET r == EventHandler_next(queue.chan)
       IN  /\ queue' = [queue EXCEPT !.chan = r.rest, !.taken = Append(@, r.event.n)]
           /\ \E o \in IF r.event.event = TickEvent THEN {Done(app)}
                       ELSE handle_key(app, r.event.event) :
                 /\ Commit(o, FALSE)
                 /\ log' = Issued(o)
           /\ pre' = app
           /\ last' = IF r.event.event = TickEvent THEN NoEvent
                      ELSE [mode |-> IF app.show_help THEN "Help" ELSE app.mode,
                            key |-> r.event.event]
    /\ UNCHANGED <<srv, pg, inp, ls, http, prod, term, nav>>

NextQueue ==
    \/ Initialize
    \/ Draw
    \/ Produce
    \/ TakeEvent
    \/ ResponseOk
    \/ InitListErr
    \/ InitErr
    \/ HandlerErr

SpecQueue == InitQueue /\ [][NextQueue]_vars

\* a request of the handler of the event taken last is outstanding
Outstanding == loop = "handling" /\ call # None

\* the events are taken in the order 1, 2, 3, ... of their sending, and the
\* channel holds the ones sent and not yet taken, oldest first
TakenInOrder ==
    queue.on =>
        LET k == Len(queue.taken)
        IN  /\ queue.taken = [i \in 1..k |-> i]
            /\ Len(queue.chan) = queue.sent - k
            /\ \A i \in 1..Len(queue.chan) : queue.chan[i].n = k + i

\* C19: the events are handled strictly in the order in which they were
\* enqueued, and run_app never dequeues event N+1 while a remote call
\* triggered by event N is outstanding.
C19_EventsHandledInOrder ==
    /\ []TakenInOrder
    /\ [][Outstanding => queue'.taken = queue.taken]_vars

\* two events are taken, the second one's request is outstanding and a third
\* event waits in the channel
C19_Witness ==
    /\ queue.on
    /\ Outstanding
    /\ Len(queue.taken) = 2
    /\ Len(queue.chan) >= 1

\* the requests of the step being handled are issued one after the other:
\* the entries of log are a request, its answer, the next request, ...
OneAtATime ==
    /\ \A i \in DOMAIN log :
          IF i % 2 = 1 THEN log[i].ev = "issue"
          ELSE log[i].ev \in {"ok", "err"} /\ log[i].op = log[i - 1].op
    /\ (call # None) <=> (Len(log) % 2 = 1)
    /\ call # None => Unwrap(call).op = log[Len(log)].op

\* a failed request that initialize tolerates (unwrap_or_default)
Tolerated(i) == Initializing /\ log[i].op \in {"get_projects", "get_boards"}

\* C20: at every moment at most one remote request is outstanding; within a
\* step that issues several requests (apply the transition, fetch the issue,
\* fetch its transitions; fetch the sprint list, fetch the sprint's issues)
\* each request is issued only after the previous one has completed
\* successfully, and no later one is issued after a failure.
C20_RequestsOneAtATime ==
    /\ OneAtATime
    /\ \A i \in DOMAIN log :
          (log[i].ev = "err" /\ ~Tolerated(i)) => i = Len(log)
    /\ \A i \in DOMAIN log :
          (log[i].ev = "issue" /\ log[i].op = "get_sprint_issues" /\ i > 1
             /\ log[i - 1].op = "get_board_sprints") => log[i - 1].ev = "ok"
    /\ (Len(log) >= 1 /\ log[1].op = "transition_issue") =>
          /\ Len(log) >= 3 => (log[2].ev = "ok" /\ log[3].op = "get_issue")
          /\ Len(log) >= 5 => (log[4].ev = "ok" /\ log[5].op = "get_transitions")
          /\ Len(log) <= 6

\* the three requests of a transition were issued and answered in turn
C20_Witness ==
    /\ Len(log) = 6
    /\ log[1].op = "transition_issue"
    /\ log[6] = [ev |-> "ok", op |-> "get_transitions"]
    /\ call = None

\* ---------------------------------------------------------------------
\* The producer task of EventHandler::new taken alone, against a clock:
\* poll with the time left to the next tick, read one terminal event, send
\* it when it is a key press, then send a Tick when the interval has elapsed.

\* the tick interval, in steps of the clock
TickRate == 2
\* the clock stops counting this far past the interval
MaxLate == 2
\* the number of events the task sends
MaxSent == 4

InitProducer ==
    /\ app = App_new(None)
    /\ srv = SrvInit
    /\ loop = "start"
    /\ pc = "-"
    /\ call = None
    /\ pre = app
    /\ last = NoEvent
    /\ pg = Idle
    /\ inp = Idle
    /\ log = <<>>
    /\ ls = Idle
    /\ http = Idle
    /\ queue = Idle
    /\ term = Idle
    /\ nav = Idle
    /\ prod = [on |-> TRUE, at |-> "poll", elapsed |-> 0, chan |-> <<>>,
               read |-> 0, late |-> 0]

ProducerFrame ==
    UNCHANGED <<app, srv, loop, pc, call, pre, last, pg, inp, log, ls, http, queue, term, nav>>

\* the interval has elapsed since last_tick
TickDue(p) == p.elapsed >= TickRate

\* time passes, wherever the task stands
Clock ==
    /\ prod.on
    /\ prod.elapsed < TickRate + MaxLate
    /\ prod' = [prod EXCEPT !.elapsed = @ + 1]
    /\ ProducerFrame

\* event::poll(timeout) returns true: a terminal event is there
PollReady ==
    /\ prod.on /\ prod.at = "poll"
    /\ Len(prod.chan) < MaxSent
    /\ prod' = [prod EXCEPT !.at = "read"]
    /\ ProducerFrame

\* event::poll(timeout) returns false when the timeout is over, or fails
\* (unwrap_or(false)) at any time
PollEmpty ==
    /\ prod.on /\ prod.at = "poll"
    /\ prod' = [prod EXCEPT !.at = "check"]
    /\ ProducerFrame

\* event::read() returns a key press
ReadKeyPress ==
    /\ prod.on /\ prod.at = "read"
    /\ prod' = [prod EXCEPT !.at = "send", !.read = @ + 1,
                            !.late = IF TickDue(prod) THEN @ + 1 ELSE @]
    /\ ProducerFrame

\* event::read() returns another terminal event (key release, mouse, resize)
ReadOther ==
    /\ prod.on /\ prod.at = "read"
    /\ prod' = [prod EXCEPT !.at = "check",
                            !.late = IF TickDue(prod) THEN @ + 1 ELSE @]
    /\ ProducerFrame

\* the key press goes on to the next poll without the check of the tick
SendKey_Continue ==
    /\ prod.on /\ prod.at = "send"
    /\ prod' = [prod EXCEPT !.at = "poll", !.chan = Append(@, "Key"),
                            !.late = IF @ > 2 THEN 2 ELSE @]
    /\ ProducerFrame

\* event_sender.send(Event::Key(..))
SendKey ==
    /\ prod.on /\ prod.at = "send"
    /\ prod' = [prod EXCEPT !.at = "check", !.chan = Append(@, "Key")]
    /\ ProducerFrame

\* if last_tick.elapsed() >= tick_rate: send(Event::Tick), last_tick = now
CheckTick ==
    /\ prod.on /\ prod.at = "check"
    /\ IF TickDue(prod)
       THEN /\ Len(prod.chan) < MaxSent
            /\ prod' = [prod EXCEPT !.at = "poll", !.chan = Append(@, "Tick"),
                                    !.elapsed = 0, !.late = 0]
       ELSE prod' = [prod EXCEPT !.at = "poll"]
    /\ ProducerFrame

NextProducer ==
    \/ Clock
    \/ PollReady
    \/ PollEmpty
    \/ ReadKeyPress
    \/ ReadOther
    \/ SendKey
    \/ CheckTick

SpecProducer == InitProducer /\ [][NextProducer]_vars

\* the key presses among the events sent
KeysSent(chan) == Cardinality({i \in DOMAIN chan : chan[i] = "Key"})

\* C21: neither kind of event postpones the other forever: once the tick
\* interval has elapsed the Tick is enqueued after at most one further read
\* of the terminal, however many keys wait, and every key press read is
\* enqueued.
C21_TickAndKeysBothEnqueued ==
    prod.on =>
        /\ prod.late <= 1
        /\ prod.at # "send" => KeysSent(prod.chan) = prod.read
        /\ prod.at = "send" => KeysSent(prod.chan) = prod.read - 1

\* a burst: two key presses with the Tick between them, the second one read
\* when the interval had elapsed again
C21_Witness ==
    /\ prod.on
    /\ Len(prod.chan) >= 3
    /\ \E i \in 1..(Len(prod.chan) - 2) :
          prod.chan[i] = "Key" /\ prod.chan[i + 1] = "Tick" /\ prod.chan[i + 2] = "Key"
    /\ prod.late = 1
    /\ prod.at = "check"

\* ---------------------------------------------------------------------
\* main taken alone: the terminal set up, the application run, the terminal
\* restored.  Every step that returns a Result may fail; `?` returns from
\* main at once.

\* the number of times run_app draws
MaxDraws == 3

MainSetup == <<"config", "enable_raw", "enter_alt", "new_terminal", "initialize", "draw">>
MainRestore == <<"disable_raw", "leave_alt", "show_cursor", "print">>

\* the step after `at` when it succeeds
NextOf(steps, at) ==
    LET i == CHOOSE j \in DOMAIN steps : steps[j] = at IN steps[i + 1]

InitMain ==
    /\ app = App_new(None)
    /\ srv = SrvInit
    /\ loop = "start"
    /\ pc = "-"
    /\ call = None
    /\ pre = app
    /\ last = NoEvent
    /\ pg = Idle
    /\ inp = Idle
    /\ log = <<>>
    /\ ls = Idle
    /\ http = Idle
    /\ queue = Idle
    /\ prod = Idle
    /\ nav = Idle
    /\ term = [on |-> TRUE, at |-> "config", exit |-> "running",
               raw |-> FALSE, alt |-> FALSE, was_raw |-> FALSE,
               init_failed |-> FALSE, draws |-> 0, res |-> "-",
               printed |-> FALSE, printed_unrestored |-> FALSE]

MainFrame ==
    UNCHANGED <<app, srv, loop, pc, call, pre, last, pg, inp, log, ls, http, queue, prod, nav>>

Running == term.on /\ term.exit = "running"

\* the effect of a step that succeeds on the terminal
TerminalAfter(t) ==
    CASE t.at = "enable_raw"  -> [t EXCEPT !.raw = TRUE, !.was_raw = TRUE]
      [] t.at = "enter_alt"   -> [t EXCEPT !.alt = TRUE]
      [] t.at = "disable_raw" -> [t EXCEPT !.raw = FALSE]
      [] t.at = "leave_alt"   -> [t EXCEPT !.alt = FALSE]
      [] OTHER                -> t

\* a step of the setup succeeds
SetupOk ==
    /\ Running
    /\ term.at \in {"config", "enable_raw", "enter_alt", "new_terminal"}
    /\ term' = [TerminalAfter(term) EXCEPT !.at = NextOf(MainSetup, term.at)]
    /\ MainFrame

\* a step of the setup or of the restoration fails and `?` returns from
\* main; a failed execute! may have written its first command
StepFails ==
    /\ Running
    /\ term.at \in {"config", "enable_raw", "enter_alt", "new_terminal",
                    "disable_raw", "leave_alt", "show_cursor"}
    /\ \E written \in BOOLEAN :
          /\ written => term.at \in {"enter_alt", "leave_alt"}
          /\ term' = [(IF written THEN TerminalAfter(term) ELSE term) EXCEPT !.exit = "err"]
    /\ MainFrame

\* app.initialize() returns; its error is printed at once and main goes on
InitializeReturns ==
    /\ Running
    /\ term.at = "initialize"
    /\ \E failed \in BOOLEAN :
          term' = [term EXCEPT !.at = "draw", !.init_failed = failed]
    /\ MainFrame

\* run_app: terminal.draw succeeds
DrawOk ==
    /\ Running
    /\ term.at = "draw"
    /\ term.draws < MaxDraws
    /\ term' = [term EXCEPT !.at = "handle", !.draws = @ + 1]
    /\ MainFrame

\* run_app: handle_event returns Ok(false) and the loop goes on
HandleGoesOn ==
    /\ Running
    /\ term.at = "handle"
    /\ term' = [term EXCEPT !.at = "draw"]
    /\ MainFrame

\* run_app returns: Ok(()) when handle_event returned Ok(true), Err when
\* terminal.draw or handle_event returned an error
RunAppReturns ==
    /\ Running
    /\ term.at \in {"draw", "handle"}
    /\ \E r \in {"ok", "err"} :
          /\ r = "ok" => term.at = "handle"
          /\ term' = [term EXCEPT !.at = "disable_raw", !.res = r]
    /\ MainFrame

\* initialize, a draw or a handler panics: no hook and no guard restores
\* the terminal
MainPanics ==
    /\ Running
    /\ term.at \in {"initialize", "draw", "handle"}
    /\ term' = [term EXCEPT !.exit = "panic"]
    /\ MainFrame

\* a step of the restoration succeeds
RestoreOk ==
    /\ Running
    /\ term.at \in {"disable_raw", "leave_alt", "show_cursor"}
    /\ term' = [TerminalAfter(term) EXCEPT !.at = NextOf(MainRestore, term.at)]
    /\ MainFrame

\* if let Err(err) = res { println!(..) }; Ok(())
PrintAndExit ==
    /\ Running
    /\ term.at = "print"
    /\ term' = [term EXCEPT !.exit = "ok",
                            !.printed = (term.res = "err"),
                            !.printed_unrestored = (term.res = "err" /\ (term.raw \/ term.alt))]
    /\ MainFrame

NextMain ==
    \/ SetupOk
    \/ StepFails
    \/ InitializeReturns
    \/ DrawOk
    \/ HandleGoesOn
    \/ RunAppReturns
    \/ MainPanics
    \/ RestoreOk
    \/ PrintAndExit

SpecMain == InitMain /\ [][NextMain]_vars

\* C22: on every path by which the program ends after raw mode was enabled
\* (normal quit, an error of the event loop or of drawing, a failure of a
\* later setup step, a failure of a restore step, a panic) raw mode is
\* disabled and the alternate screen is left before the process exits, and
\* an error of the event loop is printed only after that restoration.
C22_TerminalRestoredOnEveryExit ==
    (term.on /\ term.exit # "running" /\ term.was_raw) =>
        /\ ~term.raw
        /\ ~term.alt
        /\ ~term.printed_unrestored

\* ---------------------------------------------------------------------
\* The steps of the modes scenario, from the key to the return of
\* handle_event.

\* handle_event has returned Ok for the key taken last, every request of the
\* step answered with success
StepDone == KeyTaken /\ loop = "draw" /\ \A i \in DOMAIN log : log[i].ev # "err"

\* the key was taken in the mode m, the overlay hidden
TakenIn(m) == KeyTaken /\ pre.mode = m /\ ~pre.show_help

\* the operations requested in the step, in order
Requested == [i \in 1..((Len(log) + 1) \div 2) |-> log[2 * i - 1].op]

\* C23: in IssueDetail with the transitions visible, Enter on a selected
\* transition T whose three calls succeed, against a service that moves the
\* issue to T's target status, ends with the displayed issue's status equal
\* to T's target, the transition list replaced by a fresh fetch for that
\* issue, the transition sub-list hidden and the mode still IssueDetail.
C23_TransitionRefreshesDetail ==
    (/\ StepDone /\ TakenIn("IssueDetail")
     /\ last.key.code = "Enter"
     /\ pre.issue_detail_view.show_transitions
     /\ IsSome(IssueDetailView_selected_transition(pre.issue_detail_view))
     /\ IsSome(pre.issue_detail_view.issue)) =>
        LET T == Unwrap(IssueDetailView_selected_transition(pre.issue_detail_view))
            k == Unwrap(pre.issue_detail_view.issue).key
        IN  /\ Requested = <<"transition_issue", "get_issue", "get_transitions">>
            /\ srv.status[k] = T.to
            /\ IsSome(app.issue_detail_view.issue)
            /\ Unwrap(app.issue_detail_view.issue).key = k
            /\ Unwrap(app.issue_detail_view.issue).status = T.to
            /\ app.issue_detail_view.transitions = get_transitions(srv, k)
            /\ ~app.issue_detail_view.show_transitions
            /\ app.mode = "IssueDetail"

\* the issue shown moved from todo to doing, and the list of transitions
\* shown is no longer the one the transition was chosen from
C23_Witness ==
    /\ StepDone /\ TakenIn("IssueDetail")
    /\ last.key.code = "Enter"
    /\ pre.issue_detail_view.show_transitions
    /\ IsSome(pre.issue_detail_view.issue)
    /\ Unwrap(pre.issue_detail_view.issue).status = "todo"
    /\ IsSome(app.issue_detail_view.issue)
    /\ Unwrap(app.issue_detail_view.issue).status = "doing"
    /\ app.issue_detail_view.transitions # pre.issue_detail_view.transitions

\* the issue selected in the list of the mode the key was taken in
SelectedInList ==
    IF pre.mode = "Sprint" THEN SprintView_selected_issue(pre.sprint_view)
    ELSE BacklogView_selected_issue(pre.backlog_view)

\* C24: whenever the mode changes from Sprint or Backlog to IssueDetail, the
\* detail view's issue is the one selected in that list and its transition
\* list is the result of a transitions fetch for that same issue issued in
\* that step, never the transitions of an issue viewed before; Enter with no
\* selected issue issues no call and changes nothing.
C24_DetailShowsSelectedIssue ==
    /\ (KeyTaken /\ pre.mode \in {"Sprint", "Backlog"} /\ loop = "handling"
          /\ pc = "load_transitions") =>
           /\ IsSome(SelectedInList)
           /\ Unwrap(call).op = "get_transitions"
           /\ Unwrap(call).issue = Unwrap(SelectedInList).key
    /\ (KeyTaken /\ pre.mode \in {"Sprint", "Backlog"} /\ app.mode = "IssueDetail") =>
           /\ last.key.code = "Enter"
           /\ IsSome(SelectedInList)
           /\ app.issue_detail_view.issue = SelectedInList
           /\ log = <<[ev |-> "issue", op |-> "get_transitions"],
                      [ev |-> "ok", op |-> "get_transitions"]>>
           /\ app.issue_detail_view.transitions =
                  get_transitions(srv, Unwrap(SelectedInList).key)
    /\ (KeyTaken /\ ~pre.show_help /\ pre.mode \in {"Sprint", "Backlog"}
          /\ last.key.code = "Enter" /\ ~IsSome(SelectedInList)) =>
           /\ app = pre
           /\ log = <<>>
           /\ call = None

\* a second issue is opened after another one, whose transitions were
\* different
C24_Witness ==
    /\ KeyTaken /\ pre.mode \in {"Sprint", "Backlog"} /\ app.mode = "IssueDetail"
    /\ IsSome(pre.issue_detail_view.issue)
    /\ pre.issue_detail_view.issue # app.issue_detail_view.issue
    /\ pre.issue_detail_view.transitions # <<>>
    /\ pre.issue_detail_view.transitions # app.issue_detail_view.transitions

\* ---------------------------------------------------------------------
\* The selection scenario: a sprint chosen in the selector, and refreshed.

\* the keys of the issues a list holds
KeysOf(issues) == {issues[i].key : i \in DOMAIN issues}

\* the handler of the key `code`/`ch` taken in mode m has issued a request
Handling(m, key) == last = [mode |-> m, key |-> key]

\* C25: after a successful Enter in SprintSelector on a selected sprint S
\* the current sprint id is S's id, the sprint view holds the issues fetched
\* for S under S's name, the selector is inactive and the mode is Sprint; a
\* later `r` in Sprint mode reloads the issues of S and of no other sprint.
C25_SelectedSprintIsShownAndKept ==
    /\ (Handling("SprintSelector", Key("Enter")) /\ loop = "draw") =>
          LET S == Unwrap(SprintSelector_selected_sprint(pre.sprint_selector))
              board == Unwrap(pre.default_board_id)
          IN  /\ IsSome(SprintSelector_selected_sprint(pre.sprint_selector))
              /\ log = <<[ev |-> "issue", op |-> "get_sprint_issues"],
                         [ev |-> "ok", op |-> "get_sprint_issues"]>>
              /\ app.current_sprint_id = Some(S.id)
              /\ KeysOf(app.sprint_view.issues) = KeysOf(get_sprint_issues(srv, board, S.id))
              /\ Len(app.sprint_view.issues) = Len(get_sprint_issues(srv, board, S.id))
              /\ app.sprint_view.sprint_name = S.name
              /\ ~app.sprint_selector.is_active
              /\ app.mode = "Sprint"
    /\ (Handling("SprintSelector", Key("Enter")) /\ loop = "handling") =>
          /\ Unwrap(call).op = "get_sprint_issues"
          /\ Unwrap(call).sprint =
                 Unwrap(SprintSelector_selected_sprint(pre.sprint_selector)).id
    /\ (Handling("Sprint", KeyChar(<<114>>)) /\ IsSome(pre.current_sprint_id)
          /\ pre.available_sprints # <<>>) =>
          LET c == Unwrap(pre.current_sprint_id)
              board == Unwrap(pre.default_board_id)
          IN  /\ loop = "handling" =>
                    /\ Unwrap(call).op = "get_sprint_issues"
                    /\ Unwrap(call).sprint = c
              /\ loop = "draw" =>
                    /\ app.current_sprint_id = Some(c)
                    /\ KeysOf(app.sprint_view.issues) = KeysOf(get_sprint_issues(srv, board, c))
                    /\ log = <<[ev |-> "issue", op |-> "get_sprint_issues"],
                               [ev |-> "ok", op |-> "get_sprint_issues"]>>

\* `r` has reloaded a sprint that refresh_sprint would not have chosen by
\* itself: the one chosen in the selector
C25_Witness ==
    /\ Handling("Sprint", KeyChar(<<114>>)) /\ loop = "draw"
    /\ IsSome(pre.current_sprint_id) /\ pre.available_sprints # <<>>
    /\ Unwrap(pre.current_sprint_id) # pre.available_sprints[Len(pre.available_sprints)].id
    /\ app.current_sprint_id = pre.current_sprint_id
    /\ app.sprint_view.issues # <<>>

\* ---------------------------------------------------------------------
\* The text scenario: the operator opens an issue and writes a comment, or
\* opens the sprint selector and edits the name of the selected sprint.

\* the keys of the text scenario: the way into the three text-entry modes,
\* and there every key of the handler
TextKeys(a, s) ==
    {k \in Offered(a, s) :
        /\ ~a.show_help
        /\ \/ a.mode = "Sprint" /\ k.code \in {"Enter", "Tab"}
           \/ a.mode = "IssueDetail" /\ (IsChar(k, 99) \/ IsChar(k, 101))
           \/ a.mode = "SprintSelector" /\ IsChar(k, 101)
           \/ a.mode \in TextModes}

\* run_app takes a key event and calls handle_event
HandleKeyText ==
    /\ loop = "wait"
    /\ \E key \in TextKeys(app, srv) :
          \E o \in handle_key(app, key) :
             /\ Commit(o, FALSE)
             /\ pre' = app
             /\ last' = [mode |-> app.mode, key |-> key]
             /\ log' = Issued(o)
    /\ UNCHANGED <<srv, pg, inp, ls, http, queue, prod, term, nav>>

NextText ==
    \/ Initialize
    \/ Draw
    \/ HandleKeyText
    \/ HandleTick
    \/ ResponseOk
    \/ InitListErr
    \/ InitErr
    \/ HandlerErr

SpecText == Init /\ [][NextText]_vars

\* C26: Enter in AddComment with a non-empty buffer posts exactly one comment
\* carrying the buffer text to the displayed issue, then fetches that issue
\* again and replaces the detail view's issue with it; with an empty buffer
\* it issues no remote call; in both cases, when no call fails, the buffer is
\* cleared and the mode becomes IssueDetail.
C26_CommentPostedOnce ==
    /\ (TakenIn("AddComment") /\ last.key.code = "Enter" /\ loop = "handling") =>
          LET k == Unwrap(pre.issue_detail_view.issue).key
          IN  /\ pre.input_view.input # <<>>
              /\ Unwrap(call).issue = k
              /\ pc = "add_comment" =>
                     /\ Unwrap(call).op = "add_comment"
                     /\ Unwrap(call).body = pre.input_view.input
              /\ pc # "add_comment" =>
                     /\ Unwrap(call).op = "get_issue"
                     /\ Len(log) = 3
    /\ (StepDone /\ TakenIn("AddComment") /\ last.key.code = "Enter") =>
          /\ app.input_view.input = <<>>
          /\ app.mode = "IssueDetail"
          /\ IF pre.input_view.input = <<>>
             THEN /\ log = <<>>
                  /\ app.issue_detail_view = pre.issue_detail_view
             ELSE LET k == Unwrap(pre.issue_detail_view.issue).key
                  IN  /\ Requested = <<"add_comment", "get_issue">>
                      /\ srv.comments[k] # <<>>
                      /\ srv.comments[k][Len(srv.comments[k])] = pre.input_view.input
                      /\ app.issue_detail_view.issue = Some(get_issue(srv, k))

\* a comment was posted and the issue shown now carries it
C26_Witness ==
    /\ StepDone /\ TakenIn("AddComment") /\ last.key.code = "Enter"
    /\ pre.input_view.input # <<>>
    /\ Unwrap(pre.issue_detail_view.issue).comments = <<>>
    /\ Unwrap(app.issue_detail_view.issue).comments = <<pre.input_view.input>>

\* C27: Enter in EditSprintName with a non-empty buffer sends one name
\* update for the sprint selected in the sprint selector and then replaces
\* the cached sprint list and the selector's list by a freshly fetched list
\* for the current board; with an empty buffer it issues no remote call; in
\* both cases, when no call fails, the buffer is cleared and the mode becomes
\* SprintSelector with the selector still active.
C27_SprintRenamedAndReloaded ==
    /\ (TakenIn("EditSprintName") /\ last.key.code = "Enter" /\ loop = "handling") =>
          /\ pre.input_view.input # <<>>
          /\ pc = "update_sprint" =>
                 /\ Unwrap(call).op = "update_sprint"
                 /\ Unwrap(call).sprint =
                        Unwrap(SprintSelector_selected_sprint(pre.sprint_selector)).id
                 /\ Unwrap(call).body = pre.input_view.input
          /\ pc # "update_sprint" =>
                 /\ Unwrap(call).op = "get_board_sprints"
                 /\ Unwrap(call).board = Unwrap(pre.default_board_id)
                 /\ Len(log) = 3
    /\ (StepDone /\ TakenIn("EditSprintName") /\ last.key.code = "Enter") =>
          /\ app.input_view.input = <<>>
          /\ app.mode = "SprintSelector"
          /\ app.sprint_selector.is_active
          /\ IF pre.input_view.input = <<>>
             THEN /\ log = <<>>
                  /\ app.available_sprints = pre.available_sprints
                  /\ app.sprint_selector = pre.sprint_selector
             ELSE LET S == Unwrap(SprintSelector_selected_sprint(pre.sprint_selector))
                      fresh == get_board_sprints(srv, Unwrap(pre.default_board_id))
                  IN  /\ Requested = <<"update_sprint", "get_board_sprints">>
                      /\ srv.sprint_name[S.id] = pre.input_view.input
                      /\ app.available_sprints = fresh
                      /\ app.sprint_selector.sprints =
                             SprintSelector_set_sprints(pre.sprint_selector, fresh).sprints

\* the selected sprint got a new name, and both lists show it
C27_Witness ==
    /\ StepDone /\ TakenIn("EditSprintName") /\ last.key.code = "Enter"
    /\ pre.input_view.input # <<>>
    /\ LET S == Unwrap(SprintSelector_selected_sprint(pre.sprint_selector))
       IN  /\ S.name # pre.input_view.input
           /\ \E i \in DOMAIN app.available_sprints :
                 /\ app.available_sprints[i].id = S.id
                 /\ app.available_sprints[i].name = pre.input_view.input
           /\ \E i \in DOMAIN app.sprint_selector.sprints :
                 /\ app.sprint_selector.sprints[i].id = S.id
                 /\ app.sprint_selector.sprints[i].name = pre.input_view.input

SelectorModes == {"SprintSelector", "BoardSelector", "ProjectSelector"}

\* the selector of a selector mode
SelectorOf(a, m) ==
    CASE m = "SprintSelector" -> a.sprint_selector
      [] m = "BoardSelector"  -> a.board_selector
      [] OTHER                -> a.project_selector

\* C28: Esc in a selector or text-entry mode issues no remote call and leaves
\* the current sprint id, the default board id, the cached boards, sprints
\* and projects and the contents of the sprint, backlog and issue-detail
\* views unchanged; a selector is deactivated and the mode returns to Sprint,
\* AddComment and EditIssue return to IssueDetail, EditSprintName returns to
\* SprintSelector, and the text buffer is cleared.
C28_EscLeavesDataAlone ==
    (KeyTaken /\ ~pre.show_help /\ last.key.code = "Esc"
        /\ pre.mode \in SelectorModes \cup TextModes) =>
        /\ log = <<>> /\ call = None /\ loop = "draw"
        /\ app.current_sprint_id = pre.current_sprint_id
        /\ app.default_board_id = pre.default_board_id
        /\ app.available_boards = pre.available_boards
        /\ app.available_sprints = pre.available_sprints
        /\ app.available_projects = pre.available_projects
        /\ app.sprint_view = pre.sprint_view
        /\ app.backlog_view = pre.backlog_view
        /\ app.issue_detail_view = pre.issue_detail_view
        /\ pre.mode \in SelectorModes =>
              /\ app.mode = "Sprint"
              /\ ~SelectorOf(app, pre.mode).is_active
              /\ SelectorOf(app, pre.mode) = [SelectorOf(pre, pre.mode) EXCEPT !.is_active = FALSE]
        /\ pre.mode \in {"AddComment", "EditIssue"} =>
              app.mode = "IssueDetail" /\ app.input_view.input = <<>>
        /\ pre.mode = "EditSprintName" =>
              app.mode = "SprintSelector" /\ app.input_view.input = <<>>

\* Esc gave up the edit of a sprint name: the buffer held the name
C28_Witness ==
    /\ KeyTaken /\ ~pre.show_help /\ last.key.code = "Esc"
    /\ pre.mode = "EditSprintName"
    /\ pre.input_view.input # <<>>
    /\ app.input_view.input = <<>>
    /\ app.mode = "SprintSelector"
    /\ app.sprint_selector.is_active

\* ---------------------------------------------------------------------
\* One cursor-bearing view taken alone: a non-empty list with a row
\* selected, moved by next and previous.

\* the longest list
MaxRows == 4
\* the number of moves
MaxMoves == 5

NavKinds ==
    {"SprintView", "BacklogView", "SprintSelector", "BoardSelector", "ProjectSelector",
     "IssueDetailView"}

\* the view of a kind that holds the rows and the selection
NavView(kind, rows, selected) ==
    CASE kind = "SprintView" ->
            [SprintView_new EXCEPT !.issues = rows, !.state = selected]
      [] kind = "BacklogView" ->
            [BacklogView_new EXCEPT !.issues = rows, !.state = selected]
      [] kind = "SprintSelector" ->
            [SprintSelector_new EXCEPT !.sprints = rows, !.state = selected,
                                       !.is_active = TRUE]
      [] kind = "BoardSelector" ->
            [BoardSelector_new EXCEPT !.boards = rows, !.state = selected,
                                      !.is_active = TRUE]
      [] kind = "ProjectSelector" ->
            [ProjectSelector_new EXCEPT !.projects = rows, !.state = selected,
                                        !.is_active = TRUE]
      [] OTHER ->
            [IssueDetailView_new EXCEPT !.transitions = rows, !.transition_state = selected]

\* the selection of the view
NavSelected(kind, v) == IF kind = "IssueDetailView" THEN v.transition_state ELSE v.state

\* next() and previous() of the view
NavNext(kind, v) ==
    CASE kind = "SprintView"      -> SprintView_next(v)
      [] kind = "BacklogView"     -> BacklogView_next(v)
      [] kind = "SprintSelector"  -> SprintSelector_next(v)
      [] kind = "BoardSelector"   -> BoardSelector_next(v)
      [] kind = "ProjectSelector" -> ProjectSelector_next(v)
      [] OTHER                    -> IssueDetailView_next_transition(v)

NavPrevious(kind, v) ==
    CASE kind = "SprintView"      -> SprintView_previous(v)
      [] kind = "BacklogView"     -> BacklogView_previous(v)
      [] kind = "SprintSelector"  -> SprintSelector_previous(v)
      [] kind = "BoardSelector"   -> BoardSelector_previous(v)
      [] kind = "ProjectSelector" -> ProjectSelector_previous(v)
      [] OTHER                    -> IssueDetailView_previous_transition(v)

InitNav ==
    /\ app = App_new(None)
    /\ srv = SrvInit
    /\ loop = "start"
    /\ pc = "-"
    /\ call = None
    /\ pre = app
    /\ last = NoEvent
    /\ pg = Idle
    /\ inp = Idle
    /\ log = <<>>
    /\ ls = Idle
    /\ http = Idle
    /\ queue = Idle
    /\ prod = Idle
    /\ term = Idle
    /\ \E kind \in NavKinds, len \in 1..MaxRows :
          \E i \in 0..(len - 1) :
             nav = [on |-> TRUE, kind |-> kind, len |-> len, start |-> i, from |-> i,
                    moves |-> <<>>, panicked |-> FALSE,
                    view |-> NavView(kind, [r \in 1..len |-> r], Some(i))]

NavFrame ==
    UNCHANGED <<app, srv, loop, pc, call, pre, last, pg, inp, log, ls, http, queue, prod, term>>

\* the view takes the outcome o of the move
Moved(move, o) ==
    nav' = [nav EXCEPT !.view = o.v, !.panicked = o.panic,
                       !.from = Unwrap(NavSelected(nav.kind, nav.view)),
                       !.moves = Append(@, move)]

MoveNext ==
    /\ nav.on /\ ~nav.panicked
    /\ Len(nav.moves) < MaxMoves
    /\ \E o \in NavNext(nav.kind, nav.view) : Moved("next", o)
    /\ NavFrame

MovePrevious ==
    /\ nav.on /\ ~nav.panicked
    /\ Len(nav.moves) < MaxMoves
    /\ \E o \in NavPrevious(nav.kind, nav.view) : Moved("previous", o)
    /\ NavFrame

NextNav ==
    \/ MoveNext
    \/ MovePrevious

SpecNav == InitNav /\ [][NextNav]_vars

\* the row the cursor stands on
NavRow == Unwrap(NavSelected(nav.kind, nav.view))

\* C29: for a non-empty list of length L in any cursor-bearing view (the
\* selectors active), L consecutive next operations from any index return
\* the cursor to that index, next from index L-1 yields 0 and previous from
\* index 0 yields L-1.
C29_CursorWrapsAround ==
    (nav.on /\ nav.moves # <<>>) =>
        LET move == nav.moves[Len(nav.moves)] IN
        /\ ~nav.panicked
        /\ IsSome(NavSelected(nav.kind, nav.view))
        /\ (Len(nav.moves) = nav.len /\ \A i \in DOMAIN nav.moves : nav.moves[i] = "next")
              => NavRow = nav.start
        /\ (move = "next" /\ nav.from = nav.len - 1) => NavRow = 0
        /\ (move = "previous" /\ nav.from = 0) => NavRow = nav.len - 1

\* four next operations took the cursor of a list of four rows from row 2
\* over the end and back to row 2
C29_Witness ==
    /\ nav.on
    /\ nav.len = 4 /\ nav.start = 2
    /\ nav.moves = <<"next", "next", "next", "next">>
    /\ NavRow = 2

\* ---------------------------------------------------------------------
\* refresh_sprints taken alone, page by page: get_board_sprints against an
\* honest service that holds n sprints in pages of p, each page request
\* answered or failed, and the assignment of the result to the cached list
\* and to the selector.

\* the sprint with the id i, as the service renders it
SprintRow(i) == [id |-> i, name |-> <<83, 48 + (i % 10)>>, goal |-> None]
SprintRows(ids) == [i \in DOMAIN ids |-> SprintRow(ids[i])]

\* the App with a sprint list cached and shown in the selector
AppWithSprints(sprints) ==
    [App_new(Some(1)) EXCEPT
        !.available_sprints = sprints,
        !.sprint_selector = SprintSelector_set_sprints(@, sprints)]

InitFetch ==
    /\ app \in {AppWithSprints(SprintRows(ids)) : ids \in {<<>>, <<9>>, <<8, 9>>}}
    /\ srv = SrvInit
    /\ loop = "handling"
    /\ pc = "refresh_sprints"
    /\ call = None
    /\ pre = app
    /\ last = NoEvent
    /\ inp = Idle
    /\ log = <<>>
    /\ ls = Idle
    /\ http = Idle
    /\ queue = Idle
    /\ prod = Idle
    /\ term = Idle
    /\ nav = Idle
    /\ \E n \in 0..MaxN, p \in 1..MaxP :
          pg = [on |-> TRUE, kind |-> "honest", n |-> n, p |-> p,
                st |-> "request", start_at |-> 0, all_sprints |-> <<>>,
                requests |-> 0, flags |-> <<>>, failure |-> "-"]

FetchFrame ==
    UNCHANGED <<srv, pre, last, inp, log, ls, http, queue, prod, term, nav>>

\* a page arrives: one turn of the loop; after the last page
\* get_board_sprints returns and refresh_sprints stores the list
FetchPage ==
    /\ pg.on
    /\ pg.st = "request"
    /\ LET response == Serve(pg.kind, pg.n, pg.p, pg.start_at)
           r == PageStep(pg.all_sprints, response)
       IN  /\ pg' = [pg EXCEPT !.all_sprints = r.all_sprints,
                               !.st = IF r.break THEN "done" ELSE "request",
                               !.start_at = IF r.break THEN @ ELSE r.start_at,
                               !.requests = @ + 1,
                               !.flags = Append(@, response.is_last)]
           /\ IF r.break
              THEN /\ app' = [app EXCEPT
                                 !.available_sprints = SprintRows(r.all_sprints),
                                 !.sprint_selector =
                                     SprintSelector_set_sprints(@, SprintRows(r.all_sprints))]
                   /\ loop' = "draw"
                   /\ pc' = "-"
              ELSE UNCHANGED <<app, loop, pc>>
    /\ call' = None
    /\ FetchFrame

\* a page request that stores the pages received so far when it fails
FetchPageFails_KeepsPages ==
    /\ pg.on
    /\ pg.st = "request"
    /\ \E status \in HttpStatuses, body \in HttpBodies :
          LET result == send_agile_request([status |-> status, body |-> body])
          IN  /\ ~result.ok
              /\ pg' = [pg EXCEPT !.st = "err", !.requests = @ + 1,
                                  !.failure = result.err.kind]
    /\ app' = [app EXCEPT !.available_sprints = SprintRows(pg.all_sprints)]
    /\ loop' = "stopped_err"
    /\ pc' = "err"
    /\ call' = None
    /\ FetchFrame

\* a page request is answered with a failure status or with a body that is
\* no page: `?` returns the error out of get_board_sprints, refresh_sprints
\* and the handler
FetchPageFails ==
    /\ pg.on
    /\ pg.st = "request"
    /\ \E status \in HttpStatuses, body \in HttpBodies :
          LET result == send_agile_request([status |-> status, body |-> body])
          IN  /\ ~result.ok
              /\ pg' = [pg EXCEPT !.st = "err", !.requests = @ + 1,
                                  !.failure = result.err.kind]
    /\ loop' = "stopped_err"
    /\ pc' = "err"
    /\ UNCHANGED <<app, call>>
    /\ FetchFrame

\* a page request gets no response: send() fails
FetchSendFails ==
    /\ pg.on
    /\ pg.st = "request"
    /\ pg' = [pg EXCEPT !.st = "err", !.requests = @ + 1, !.failure = "request"]
    /\ loop' = "stopped_err"
    /\ pc' = "err"
    /\ UNCHANGED <<app, call>>
    /\ FetchFrame

NextFetch ==
    \/ FetchPage
    \/ FetchPageFails
    \/ FetchSendFails

SpecFetch == InitFetch /\ [][NextFetch]_vars

\* C30: if any page request of a multi-page sprint fetch fails (transport
\* error, failure status or unparsable body) the fetch returns an error and
\* none of the pages already received is accepted: the cached sprint list
\* and the sprint selector's list keep the values they had before the fetch
\* started.
C30_FailedFetchKeepsCachedSprints ==
    (pg.on /\ pg.st = "err") =>
        /\ loop = "stopped_err"
        /\ app.available_sprints = pre.available_sprints
        /\ app.sprint_selector = pre.sprint_selector
        /\ app = pre

\* the third page request failed on its body after two pages were received,
\* and the list cached before is still there
C30_Witness ==
    /\ pg.on /\ pg.st = "err"
    /\ pg.requests = 3
    /\ Len(pg.all_sprints) = 2 * pg.p
    /\ pg.failure = "decode"
    /\ app.available_sprints = SprintRows(<<8, 9>>)
    /\ app.sprint_selector.sprints = SprintRows(<<9, 8>>)

Refreshed ==
    /\ loop = "draw"
    /\ last.mode \in {"Init", "Sprint", "BoardSelector", "ProjectSelector"}
    /\ log # <<>>
    /\ log[Len(log)].ev = "ok"
    /\ log[Len(log)].op \in {"get_board_sprints", "get_sprint_issues"}
    /\ IsSome(app.default_board_id)

\* the explicit empty state of the sprint view
Sentinel(v) ==
    v.issues = <<>> /\ v.sprint_name = StrNoSprintsAvailable /\ v.sprint_goal = None

\* C32: after a sprint refresh for a configured board the sprint view is in
\* the sentinel empty state (no issues, the name "No Sprints Available", no
\* goal) exactly when no sprints are known for that board; whenever at least
\* one sprint is known the refresh loads the issues of a real sprint.
C32_SentinelOnlyWithoutSprints ==
    Refreshed =>
        /\ Sentinel(app.sprint_view) <=> app.available_sprints = <<>>
        /\ app.available_sprints = <<>> => log[Len(log)].op = "get_board_sprints"
        /\ app.available_sprints # <<>> =>
              /\ log[Len(log)].op = "get_sprint_issues"
              /\ IsSome(app.current_sprint_id)
              /\ \E i \in DOMAIN app.available_sprints :
                    /\ app.available_sprints[i].id = Unwrap(app.current_sprint_id)
                    /\ app.sprint_view.sprint_name = app.available_sprints[i].name
                    /\ KeysOf(app.sprint_view.issues) =
                           KeysOf(get_sprint_issues(srv, Unwrap(app.default_board_id),
                                                    app.available_sprints[i].id))

\* a board without sprints was chosen after a sprint had been shown
C32_Witness ==
    /\ Refreshed
    /\ last.mode = "BoardSelector"
    /\ pre.sprint_view.issues # <<>>
    /\ app.available_sprints = <<>>
    /\ Sentinel(app.sprint_view)

\* ---------------------------------------------------------------------
\* The sprint scenario: refresh, the three selectors and the rename of a
\* sprint, with the help overlay hidden.

\* the keys that reach the sprint data
SprintKeys(a, s) ==
    {k \in Offered(a, s) :
        /\ ~a.show_help
        /\ \/ a.mode = "Sprint"
                /\ (k.code = "Tab" \/ IsChar(k, 114) \/ IsChar(k, 66) \/ IsChar(k, 80))
           \/ a.mode = "SprintSelector"
                /\ (k.code \in {"Enter", "Down", "Esc"} \/ IsChar(k, 101))
           \/ a.mode \in {"BoardSelector", "ProjectSelector"}
                /\ k.code \in {"Enter", "Down", "Esc"}
           \/ a.mode = "EditSprintName" /\ k.code \in {"Enter", "Backspace", "Esc"}}

\* run_app takes a key event and calls handle_event
HandleKeySprints ==
    /\ loop = "wait"
    /\ \E key \in SprintKeys(app, srv) :
          \E o \in handle_key(app, key) :
             /\ Commit(o, FALSE)
             /\ pre' = app
             /\ last' = [mode |-> app.mode, key |-> key]
             /\ log' = Issued(o)
    /\ UNCHANGED <<srv, pg, inp, ls, http, queue, prod, term, nav>>

NextSprints ==
    \/ Initialize
    \/ Draw
    \/ HandleKeySprints
    \/ HandleTick
    \/ ResponseOk
    \/ InitListErr
    \/ InitErr
    \/ HandlerErr

SpecSprints == Init /\ [][NextSprints]_vars

\* the ids of the cached sprints
CachedSprintIds == {sp.id : sp \in Range(app.available_sprints)}

\* C33: in every reachable state a set current sprint id names a sprint of
\* the cached sprint list, and that list is the one of the current default
\* board; sprint selection, board and project selection, sprint refresh and
\* the sprint-list refresh after a rename all keep it so.
C33_CurrentSprintIsCached ==
    IsSome(app.current_sprint_id) =>
        /\ IsSome(app.default_board_id)
        /\ Unwrap(app.current_sprint_id) \in CachedSprintIds
        /\ CachedSprintIds \subseteq Range(ServerSprintIds[Unwrap(app.default_board_id)])

\* the list was fetched again after a rename while a sprint is current
C33_Witness ==
    /\ Handling("EditSprintName", Key("Enter"))
    /\ StepDone
    /\ Requested = <<"update_sprint", "get_board_sprints">>
    /\ IsSome(app.current_sprint_id)
    /\ app.available_sprints # pre.available_sprints
    /\ Unwrap(app.current_sprint_id) \in CachedSprintIds

\* C34: in every reachable state each selector's active flag agrees with the
\* mode: the sprint selector is active exactly in SprintSelector and
\* EditSprintName, the board selector exactly in BoardSelector, the project
\* selector exactly in ProjectSelector; so at most one selector is active.
C34_SelectorActiveMatchesMode ==
    /\ app.sprint_selector.is_active <=> app.mode \in {"SprintSelector", "EditSprintName"}
    /\ app.board_selector.is_active <=> app.mode = "BoardSelector"
    /\ app.project_selector.is_active <=> app.mode = "ProjectSelector"
    /\ Cardinality({f \in {"sprint_selector", "board_selector", "project_selector"} :
                       app[f].is_active}) <= 1

\* a selector was left with Esc after another one had been used
C34_Witness ==
    /\ Handling("BoardSelector", Key("Esc"))
    /\ pre.board_selector.is_active
    /\ ~app.board_selector.is_active
    /\ app.mode = "Sprint"
    /\ app.sprint_selector.sprints # <<>>

\* the list mode the issue shown was opened from: Enter in Sprint or Backlog
\* shows the selected issue of that list, the lists of the service share no
\* issue, and no key moves a list's selection while the detail is shown
EnteredFrom(a) ==
    LET shown == Unwrap(a.issue_detail_view.issue).key
        picked == BacklogView_selected_issue(a.backlog_view)
    IN  IF IsSome(picked) /\ Unwrap(picked).key = shown THEN "Backlog" ELSE "Sprint"

\* C35: leaving IssueDetail with Esc while the transitions are hidden returns
\* the controller to the list mode, Sprint or Backlog, from which the issue
\* detail was entered.
C35_EscReturnsToOrigin ==
    (/\ TakenIn("IssueDetail")
     /\ last.key = Key("Esc")
     /\ ~pre.issue_detail_view.show_transitions
     /\ IsSome(pre.issue_detail_view.issue)) =>
        app.mode = EnteredFrom(pre)

\* the modes that show or edit the issue of the detail view
DetailModes == {"IssueDetail", "AddComment", "EditIssue"}

\* C36: in every reachable state, whenever the mode is IssueDetail,
\* AddComment or EditIssue the issue detail view holds an issue.
C36_DetailModesHoldAnIssue ==
    app.mode \in DetailModes => IsSome(app.issue_detail_view.issue)

\* a text-entry mode was entered from the detail of a backlog issue
C36_Witness ==
    /\ TakenIn("IssueDetail")
    /\ app.mode \in {"AddComment", "EditIssue"}
    /\ IsSome(app.issue_detail_view.issue)
    /\ EnteredFrom(app) = "Backlog"

\* C37: in every reachable state the transition sub-list is visible only
\* while the mode is IssueDetail, AddComment or EditIssue; so every entry
\* into IssueDetail from Sprint or Backlog starts with the sub-list hidden.
C37_TransitionsVisibleOnlyInDetail ==
    /\ app.issue_detail_view.show_transitions => app.mode \in DetailModes
    /\ (/\ KeyTaken /\ loop = "draw"
        /\ last.mode \in {"Sprint", "Backlog"}
        /\ app.mode = "IssueDetail") =>
           ~app.issue_detail_view.show_transitions

\* the detail is opened again after the sub-list had been shown and hidden
C37_Witness ==
    /\ Handling("Sprint", Key("Enter"))
    /\ loop = "draw"
    /\ app.mode = "IssueDetail"
    /\ ~app.issue_detail_view.show_transitions
    /\ IsSome(pre.issue_detail_view.issue)
    /\ Unwrap(pre.issue_detail_view.issue).status # "todo"

\* run_app has left its loop through `break`
Stopped == loop = "stopped_ok"

\* C38: should_quit is never reset once set and the event that sets it is
\* the last one handled: handle_event returns true exactly when should_quit
\* is set, the loop then stops, no event queued later is taken and no
\* further request is issued.
C38_QuitIsFinal ==
    /\ [](queue.on => (app.should_quit <=> Stopped))
    /\ [][app.should_quit =>
            /\ app'.should_quit
            /\ Stopped'
            /\ queue'.taken = queue.taken
            /\ call' = None /\ log' = log /\ srv' = srv]_vars

\* q was taken after another event, and an event sent later waits in the
\* channel of the stopped loop
C38_Witness ==
    /\ queue.on
    /\ app.should_quit /\ Stopped
    /\ IsChar(last.key, 113)
    /\ Len(queue.taken) >= 2
    /\ queue.chan # <<>>
    /\ call = None

\* ---------------------------------------------------------------------
\* The key presses read while a request is in flight, with the scheduling
\* of the runtime: run_app goes round its loop, recv() returns when the
\* channel holds an event, a request in flight is answered (with a response
\* or with an error).

\* the keys pressed: r (a refresh, two requests) and q
PressEvents == {KeyChar(<<114>>), KeyChar(<<113>>)}

\* queue.late keeps the numbers of the presses sent during a request
InitPress ==
    /\ app = App_new(Some(2))
    /\ srv = SrvInit
    /\ loop = "start"
    /\ pc = "-"
    /\ call = None
    /\ pre = app
    /\ last = NoEvent
    /\ pg = Idle
    /\ inp = Idle
    /\ log = <<>>
    /\ ls = Idle
    /\ http = Idle
    /\ queue = [on |-> TRUE, chan |-> <<>>, sent |-> 0, taken |-> <<>>, late |-> {}]
    /\ prod = Idle
    /\ term = Idle
    /\ nav = Idle

\* a task that drops what it reads while handle_event is suspended in a
\* request
SendPress_DropsWhileBusy ==
    /\ queue.on
    /\ loop \in {"draw", "wait", "handling", "stopped_ok", "stopped_err"}
    /\ queue.sent < MaxEvents
    /\ \E e \in PressEvents :
          queue' = [queue EXCEPT
                       !.sent = @ + 1,
                       !.chan = IF loop = "handling" THEN @
                                ELSE Append(@, [n |-> queue.sent + 1, event |-> e]),
                       !.late = IF loop = "handling" THEN @ \cup {queue.sent + 1} ELSE @]
    /\ UNCHANGED <<app, srv, loop, pc, call, pre, last, pg, inp, log, ls, http, prod, term, nav>>

\* the spawned task reads a key press and sends it
SendPress ==
    /\ queue.on
    /\ loop \in {"draw", "wait", "handling", "stopped_ok", "stopped_err"}
    /\ queue.sent < MaxEvents
    /\ \E e \in PressEvents :
          queue' = [queue EXCEPT
                       !.sent = @ + 1,
                       !.chan = Append(@, [n |-> queue.sent + 1, event |-> e]),
                       !.late = IF loop = "handling" THEN @ \cup {queue.sent + 1} ELSE @]
    /\ UNCHANGED <<app, srv, loop, pc, call, pre, last, pg, inp, log, ls, http, prod, term, nav>>

NextPress ==
    \/ Initialize
    \/ Draw
    \/ SendPress
    \/ TakeEvent
    \/ ResponseOk
    \/ InitListErr
    \/ InitErr
    \/ HandlerErr

SpecPress ==
    /\ InitPress /\ [][NextPress]_vars
    /\ WF_vars(Initialize)
    /\ WF_vars(Draw)
    /\ WF_vars(TakeEvent)
    /\ WF_vars(ResponseOk)

\* run_app has returned, through `break` or with an error
Returned == loop \in {"stopped_ok", "stopped_err"}

\* the events sent and not yet taken
Waiting == {queue.chan[i].n : i \in DOMAIN queue.chan}

\* C39: no key press is lost while the controller waits on a remote call:
\* every press sent during a call in flight is appended to the channel and
\* stays there until it is taken, and, unless a call fails or a quit
\* intervenes, it is taken afterwards, in the order of sending.
C39_NoPressLostDuringCall ==
    /\ [](\A n \in queue.late : n \in Waiting \cup Range(queue.taken))
    /\ [](\A i, j \in DOMAIN queue.taken : i < j => queue.taken[i] < queue.taken[j])
    /\ (queue.late # {}) ~> (queue.late \subseteq Range(queue.taken) \/ Returned)

\* two presses were sent during the requests of the first one and both have
\* been taken since
C39_Witness ==
    /\ queue.late = {2, 3}
    /\ queue.taken = <<1, 2, 3>>
    /\ ~Returned
====
